---- MODULE Spec2Model ----
(***************************************************************************)
(* EPUB import of the chapter input modal (ChapterInputModal.tsx): path    *)
(* resolution, table-of-contents parsing, anchor-bounded section           *)
(* extraction and chapter assembly, as a state machine.                    *)
(*                                                                         *)
(* A path string is represented by the sequence of its '/'-separated       *)
(* segments, i.e. by the value of String.prototype.split('/'): "a/b" is    *)
(* <<"a","b">>, "/x" is <<"","x">>, and the empty string is <<"">>.        *)
(***************************************************************************)
EXTENDS Integers, Sequences, FiniteSets, TLC

VARIABLES
    pathSt,     \* harness of getAbsolutePath: [pc, base, rel, out, out2]
    exSt,       \* harness of the section extraction: [pc, doc, items, k, out]
    call,       \* harness of the other functions: [pc, fn, the arguments, the results]
    \* state of the modal (useState, useRef)
    title, error, infoMessage, isProcessingFile, fileInputValue,
    \* the running handleFileChange: its position and its locals
    pc, file, zip, unreadable, rootfilePath, opfDoc, tocPath, tocMediaType, tocItemsFound, tocDoc,
    itemsToProcess, chaptersWithContent, idx, chapterSpecificContent, processedCount,
    closure,    \* the state values handleFileChange closed over when it was created
    thrown,     \* the Error caught by the catch block of handleFileChange
    batches,    \* the arguments of the calls of onAddChaptersBatch, in order
    timerArmed, \* the setTimeout of line 358 is pending
    closeCalls  \* number of calls of onClose

harnessVars == <<pathSt, exSt, call>>
modalVars == <<title, error, infoMessage, isProcessingFile, fileInputValue>>
localVars == <<file, zip, unreadable, rootfilePath, opfDoc, tocPath, tocMediaType, tocItemsFound,
               tocDoc, itemsToProcess, chaptersWithContent, idx, chapterSpecificContent,
               processedCount, closure, thrown>>
importVars == <<modalVars, pc, localVars, batches, timerArmed, closeCalls>>
vars == <<harnessVars, importVars>>

NULL == "null"

NoPath == <<>>
EmptyStr == <<"">>

(***************************************************************************)
(* Messages of the modal, [msg, arg, cause, n]: the text by a short name,  *)
(* the path and the number it quotes, and for a caught Error the message   *)
(* that Error carried.                                                     *)
(***************************************************************************)
Msg(m) == [msg |-> m, arg |-> NoPath, cause |-> "", n |-> 0]
MsgAt(m, path) == [msg |-> m, arg |-> path, cause |-> "", n |-> 0]
NoError == Msg("")          \* setError('')
NoInfo == Msg("null")       \* setInfoMessage(null)
NoContent == [whole |-> TRUE, els |-> <<>>]

(***************************************************************************)
(* The modal after construction (lines 21-26), no import running.          *)
(***************************************************************************)
ModalMounted ==
    /\ title = ""
    /\ error = NoError
    /\ infoMessage = NoInfo
    /\ isProcessingFile = FALSE
    /\ fileInputValue = ""
    /\ pc = "idle"
    /\ file = [type |-> "", name |-> "", isZip |-> FALSE]
    /\ zip = {}
    /\ unreadable = {}
    /\ rootfilePath = NoPath
    /\ opfDoc = [dcTitle |-> "", spineToc |-> "", items |-> <<>>]
    /\ tocPath = NoPath
    /\ tocMediaType = ""
    /\ tocItemsFound = FALSE
    /\ tocDoc = <<>>
    /\ itemsToProcess = <<>>
    /\ chaptersWithContent = <<>>
    /\ idx = 0
    /\ chapterSpecificContent = NoContent
    /\ processedCount = 0
    /\ closure = [title |-> "", error |-> NoError, infoMessage |-> NoInfo,
                  isProcessingFile |-> FALSE]
    /\ thrown = NoError
    /\ batches = <<>>
    /\ timerArmed = FALSE
    /\ closeCalls = 0

(***************************************************************************)
(* Bounds of the path harness.                                             *)
(***************************************************************************)
MaxBaseLen == 3
MaxRelLen == 3

NameSegs == {"a", "b"}
RelSegs == {"a", "..", ".", ""}

\* all sequences over S of length lo..hi
SeqsOf(S, lo, hi) == UNION {[1..n -> S] : n \in lo..hi}

(***************************************************************************)
(* Array helpers of the source language.                                   *)
(***************************************************************************)
\* Array.prototype.pop(): the array without its last element (no-op on [])
Pop(parts) == IF Len(parts) = 0 THEN parts ELSE SubSeq(parts, 1, Len(parts) - 1)

\* Array.prototype.join('/'), in the segment representation of strings:
\* [].join('/') is the empty string, whose segment list is [""]
Join(parts) == IF parts = <<>> THEN <<"">> ELSE parts

(***************************************************************************)
(* getAbsolutePath, ChapterInputModal.tsx lines 50-63.                     *)
(***************************************************************************)
RECURSIVE ResolveParts(_, _)
ResolveParts(baseParts, relativeParts) ==
    IF relativeParts = <<>> THEN baseParts
    ELSE LET part == Head(relativeParts)
             rest == Tail(relativeParts)
         IN IF part = ".."
            THEN ResolveParts(IF Len(baseParts) > 0 THEN Pop(baseParts) ELSE baseParts, rest)
            ELSE IF part # "." /\ part # ""
                 THEN ResolveParts(Append(baseParts, part), rest)
                 ELSE ResolveParts(baseParts, rest)

\* the loop of getAbsolutePath with '..' skipped instead of popping a level
RECURSIVE ResolvePartsNoPop(_, _)
ResolvePartsNoPop(baseParts, relativeParts) ==
    IF relativeParts = <<>> THEN baseParts
    ELSE LET part == Head(relativeParts)
             rest == Tail(relativeParts)
         IN IF part = ".."
            THEN ResolvePartsNoPop(baseParts, rest)
            ELSE IF part # "." /\ part # ""
                 THEN ResolvePartsNoPop(Append(baseParts, part), rest)
                 ELSE ResolvePartsNoPop(baseParts, rest)

getAbsolutePath_KeepDotDot(base, relative) ==
    Join(ResolvePartsNoPop(Pop(base), relative))

getAbsolutePath(base, relative) ==
    Join(ResolveParts(Pop(base), relative))

(***************************************************************************)
(* getAbsolutePath of the earlier revision, ChapterInputModal.tsx lines    *)
(* 544-557: every segment other than '..' and '.' is pushed.               *)
(***************************************************************************)
RECURSIVE ResolveParts_r2(_, _)
ResolveParts_r2(baseParts, relativeParts) ==
    IF relativeParts = <<>> THEN baseParts
    ELSE LET part == Head(relativeParts)
             rest == Tail(relativeParts)
         IN IF part = ".."
            THEN ResolveParts_r2(IF Len(baseParts) > 0 THEN Pop(baseParts) ELSE baseParts, rest)
            ELSE IF part # "."
                 THEN ResolveParts_r2(Append(baseParts, part), rest)
                 ELSE ResolveParts_r2(baseParts, rest)

getAbsolutePath_r2(base, relative) ==
    Join(ResolveParts_r2(Pop(base), relative))

(***************************************************************************)
(* Harness of getAbsolutePath: a base path (an archive entry name: named   *)
(* segments only) and a relative reference are drawn, then resolved by     *)
(* both revisions of the function.                                         *)
(***************************************************************************)
PathBases == SeqsOf(NameSegs, 1, MaxBaseLen)
PathRels == SeqsOf(RelSegs, 1, MaxRelLen)

InitPath ==
    /\ ModalMounted
    /\ exSt = [pc |-> "off"]
    /\ call = [pc |-> "off"]
    /\ pathSt \in {[pc |-> "call", base |-> b, rel |-> r, out |-> <<>>, out2 |-> <<>>] :
                    b \in PathBases, r \in PathRels}

ResolvePath ==
    /\ pathSt.pc = "call"
    /\ pathSt' = [pathSt EXCEPT !.pc = "returned",
                                !.out = getAbsolutePath(pathSt.base, pathSt.rel),
                                !.out2 = getAbsolutePath_r2(pathSt.base, pathSt.rel)]
    /\ UNCHANGED <<exSt, call, importVars>>

NextPath == ResolvePath

SpecPath == InitPath /\ [][NextPath]_vars

(***************************************************************************)
(* Reference semantics for C9: the standard hierarchical join of the      *)
(* base's directory with the reference, normalised by rewriting: '.'       *)
(* segments are dropped and each "name/.." pair is cancelled, until        *)
(* neither rule applies.  The archive root is the path without segments.   *)
(***************************************************************************)
DropDots(segs) == SelectSeq(segs, LAMBDA s : s # ".")

\* positions i such that segs[i] is a name and segs[i+1] is '..'
CancelAt(segs) == {i \in 1..(Len(segs) - 1) : segs[i] # ".." /\ segs[i + 1] = ".."}

RECURSIVE Normalize(_)
Normalize(segs) ==
    IF CancelAt(segs) = {} THEN segs
    ELSE LET i == CHOOSE k \in CancelAt(segs) : TRUE
         IN Normalize(SubSeq(segs, 1, i - 1) \o SubSeq(segs, i + 2, Len(segs)))

StandardJoin(base, ref) == Normalize(DropDots(Pop(base) \o ref))

\* the segments of a path string, the empty string having none
SegsOf(path) == IF path = <<"">> THEN <<>> ELSE path

\* a reference of named segments, '..' and '.', that stays inside the root
ValidRef(base, ref) ==
    /\ \A i \in 1..Len(ref) : ref[i] # ""
    /\ \A i \in 1..Len(StandardJoin(base, ref)) : StandardJoin(base, ref)[i] # ".."

\* C9: for every archive base path and every valid relative reference of
\* named segments, '..' and '.' that does not climb above the archive root,
\* getAbsolutePath (either revision) returns the standard hierarchical join
\* of the base's directory with the reference, normalised; and
\* getAbsolutePath('a/b/c.xhtml', '../img/x.png') = 'a/img/x.png'.
C9_ResolveIsStandardJoin ==
    /\ (pathSt.pc = "returned" /\ ValidRef(pathSt.base, pathSt.rel)) =>
          /\ SegsOf(pathSt.out) = StandardJoin(pathSt.base, pathSt.rel)
          /\ SegsOf(pathSt.out2) = StandardJoin(pathSt.base, pathSt.rel)
    /\ pathSt.pc = "returned" =>
          /\ getAbsolutePath(<<"a", "b", "c.xhtml">>, <<"..", "img", "x.png">>)
                = <<"a", "img", "x.png">>
          /\ getAbsolutePath_r2(<<"a", "b", "c.xhtml">>, <<"..", "img", "x.png">>)
                = <<"a", "img", "x.png">>

\* a resolved reference that climbs one level and then descends
C9_Witness ==
    /\ pathSt.pc = "returned"
    /\ pathSt.base = <<"a", "b", "a">>
    /\ pathSt.rel = <<"..", ".", "a">>
    /\ pathSt.out = <<"a", "a">>

\* C10: getAbsolutePath never raises (it returns a path for every input); a
\* '..' met on an empty directory stack is a no-op; '.' and empty segments
\* of the reference are skipped, so the result holds no empty, '.' or '..'
\* segment.  Stated for both revisions of the function.
NoBadSegment(out) ==
    \/ out = <<"">>
    \/ \A i \in 1..Len(out) : out[i] \notin {"", ".", ".."}

C10_Rev1SkipsBadSegments ==
    pathSt.pc = "returned" =>
        /\ Len(pathSt.out) >= 1
        /\ NoBadSegment(pathSt.out)
        /\ getAbsolutePath(<<"c.xhtml">>, <<"..", "..", "x.png">>) = <<"x.png">>

C10_Rev1Witness ==
    /\ pathSt.pc = "returned"
    /\ pathSt.base = <<"a">>
    /\ pathSt.rel = <<"..", "", "a">>
    /\ pathSt.out = <<"a">>

C10_NoBadSegmentEitherRevision ==
    pathSt.pc = "returned" =>
        /\ NoBadSegment(pathSt.out)
        /\ NoBadSegment(pathSt.out2)
        /\ getAbsolutePath(<<"c.xhtml">>, <<"..", "..", "x.png">>) = <<"x.png">>
        /\ getAbsolutePath_r2(<<"c.xhtml">>, <<"..", "..", "x.png">>) = <<"x.png">>

(***************************************************************************)
(* Section extraction, ChapterInputModal.tsx lines 262-312.                *)
(*                                                                         *)
(* A chapter file is the sequence of the element children of the anchor's  *)
(* parent, each element [tag, id, src]: tag is Element.tagName (upper      *)
(* case in an HTML document), id is "" when the element has none, src is   *)
(* the src attribute of the img it holds (NoSrc when it holds none).       *)
(* A TOC item is [title, filePath, anchor], anchor NULL when undefined.    *)
(* Chapter content is [whole, els]: whole is TRUE when the content is the  *)
(* markup of the whole file, FALSE when it is the extracted run.           *)
(***************************************************************************)
NoSrc == [kind |-> "none", path |-> <<>>, mediaType |-> ""]

HeadingTags == {"H1", "H2", "H3", "H4", "H5", "H6"}

\* Document.getElementById: index of the first element with that id, 0 if none
getElementById(doc, id) ==
    IF \E i \in 1..Len(doc) : doc[i].id = id
    THEN CHOOSE i \in 1..Len(doc) :
            /\ doc[i].id = id
            /\ \A j \in 1..(i - 1) : doc[j].id # id
    ELSE 0

\* lines 285-287 without the comparison of the file paths
isNextElDifferentAnchor_AnyFile(nextElId, item, tocItems) ==
    \E t \in 1..Len(tocItems) :
        /\ tocItems[t].anchor # NULL
        /\ tocItems[t].anchor = nextElId
        /\ tocItems[t].anchor # item.anchor

\* lines 285-287
isNextElDifferentAnchor(nextElId, item, tocItems) ==
    \E t \in 1..Len(tocItems) :
        /\ tocItems[t].filePath = item.filePath
        /\ tocItems[t].anchor # NULL
        /\ tocItems[t].anchor = nextElId
        /\ tocItems[t].anchor # item.anchor

\* line 288 with the heading test left out
isNextElHeading_Never(nextEl) == FALSE

\* line 288
isNextElHeading(nextEl) == nextEl.tag \in HeadingTags

\* lines 278-294 with the stopping rule applied to the anchor element too: a
\* heading at the anchor ends the run before anything is pushed
RECURSIVE elementsForSectionEnd_TestAnchor(_, _, _, _)
elementsForSectionEnd_TestAnchor(doc, currentNode, item, tocItems) ==
    IF isNextElHeading(doc[currentNode]) THEN currentNode - 1
    ELSE IF currentNode = Len(doc) THEN currentNode
    ELSE elementsForSectionEnd_TestAnchor(doc, currentNode + 1, item, tocItems)

\* lines 278-294: index of the last element pushed to elementsForSection,
\* the loop standing at currentNode
RECURSIVE elementsForSectionEnd(_, _, _, _)
elementsForSectionEnd(doc, currentNode, item, tocItems) ==
    IF currentNode = Len(doc) THEN currentNode
    ELSE LET nextEl == doc[currentNode + 1]
         IN IF \/ isNextElHeading(nextEl)
               \/ isNextElDifferentAnchor(nextEl.id, item, tocItems)
            THEN currentNode
            ELSE elementsForSectionEnd(doc, currentNode + 1, item, tocItems)

\* lines 262-312 with the item of a missing anchor given no content
extractSection_NothingOnMissingAnchor(fullFileHtml, item, tocItems) ==
    LET full == [whole |-> TRUE, els |-> fullFileHtml]
    IN IF item.anchor = NULL THEN full
       ELSE LET anchoredElement == getElementById(fullFileHtml, item.anchor)
            IN IF anchoredElement = 0 THEN [whole |-> FALSE, els |-> <<>>]
               ELSE [whole |-> FALSE,
                     els |-> SubSeq(fullFileHtml, anchoredElement,
                                    elementsForSectionEnd(fullFileHtml, anchoredElement,
                                                          item, tocItems))]

\* lines 262-312: chapterSpecificContent for item, given the file's elements
extractSection(fullFileHtml, item, tocItems) ==
    LET full == [whole |-> TRUE, els |-> fullFileHtml]
    IN IF item.anchor = NULL THEN full
       ELSE LET anchoredElement == getElementById(fullFileHtml, item.anchor)
            IN IF anchoredElement = 0 THEN full
               ELSE LET last == elementsForSectionEnd(fullFileHtml, anchoredElement,
                                                      item, tocItems)
                        extractedHtml == SubSeq(fullFileHtml, anchoredElement, last)
                    IN IF extractedHtml # <<>>
                       THEN [whole |-> FALSE, els |-> extractedHtml]
                       ELSE full

(***************************************************************************)
(* Harness of the section extraction: a chapter file and a TOC item list   *)
(* are drawn, and the section of one item of the list is extracted.        *)
(***************************************************************************)
MaxSiblings == 3
MaxTocItems == 2

FileF == <<"OEBPS", "ch1.xhtml">>
FileG == <<"OEBPS", "ch2.xhtml">>

ExElements == {[tag |-> t, id |-> i, src |-> NoSrc] : t \in {"H2", "P"}, i \in {"", "a", "b"}}
ExDocs == SeqsOf(ExElements, 1, MaxSiblings)
ExItems == {[title |-> <<"T">>, filePath |-> f.p, anchor |-> f.a] :
                f \in {[p |-> FileF, a |-> "a"], [p |-> FileF, a |-> "b"],
                       [p |-> FileG, a |-> "b"], [p |-> FileF, a |-> NULL]}}
ExItemLists == SeqsOf(ExItems, 1, MaxTocItems)

InitExtract ==
    /\ ModalMounted
    /\ pathSt = [pc |-> "off"]
    /\ call = [pc |-> "off"]
    /\ exSt \in {[pc |-> "call", doc |-> d, items |-> l, k |-> n,
                  out |-> [whole |-> TRUE, els |-> <<>>]] :
                    d \in ExDocs, l \in ExItemLists, n \in 1..MaxTocItems}
    /\ exSt.k <= Len(exSt.items)
    /\ exSt.items[exSt.k].filePath = FileF

ExtractSection ==
    /\ exSt.pc = "call"
    /\ exSt' = [exSt EXCEPT !.pc = "returned",
                            !.out = extractSection(exSt.doc, exSt.items[exSt.k], exSt.items)]
    /\ UNCHANGED <<pathSt, call, importVars>>

NextExtract == ExtractSection

SpecExtract == InitExtract /\ [][NextExtract]_vars

(***************************************************************************)
(* C7, C8: the extracted run.                                              *)
(***************************************************************************)
ExItem == exSt.items[exSt.k]

\* the anchor element of the item under extraction (0: none)
ExAnchorAt ==
    IF ExItem.anchor = NULL \/ \A i \in 1..Len(exSt.doc) : exSt.doc[i].id # ExItem.anchor
    THEN 0
    ELSE CHOOSE i \in 1..Len(exSt.doc) :
            /\ exSt.doc[i].id = ExItem.anchor
            /\ \A j \in 1..(i - 1) : exSt.doc[j].id # ExItem.anchor

\* the anchors of the other TOC items that point into the same file
OtherAnchorsOfFile ==
    {exSt.items[t].anchor : t \in {u \in 1..Len(exSt.items) :
        /\ exSt.items[u].filePath = ExItem.filePath
        /\ exSt.items[u].anchor # NULL
        /\ exSt.items[u].anchor # ExItem.anchor}}

\* the siblings after the anchor element that are headings
HeadingsAfter == {i \in (ExAnchorAt + 1)..Len(exSt.doc) : exSt.doc[i].tag \in HeadingTags}

\* the siblings after the anchor element that start another item's section
OtherStartsAfter ==
    {i \in (ExAnchorAt + 1)..Len(exSt.doc) : exSt.doc[i].id \in OtherAnchorsOfFile}

MinOf(S) == CHOOSE x \in S : \A y \in S : x <= y

\* the document of the specification's example and its two anchors
ExampleDoc ==
    << [tag |-> "H2", id |-> "a", src |-> NoSrc], [tag |-> "P", id |-> "", src |-> NoSrc],
       [tag |-> "H2", id |-> "b", src |-> NoSrc], [tag |-> "P", id |-> "", src |-> NoSrc] >>
ExampleItemA == [title |-> <<"T">>, filePath |-> FileF, anchor |-> "a"]
ExampleItemB == [title |-> <<"T">>, filePath |-> FileF, anchor |-> "b"]

\* C7: when the anchor element is found, the extracted run starts at the
\* anchor element, is a contiguous run of its following siblings, holds no
\* sibling at or past the first following h1-h6 element, and reaches up to
\* that heading (or the last sibling) unless a sibling that starts another
\* TOC item's section comes first.  In the document
\* <h2 id=a>T1</h2><p>x</p><h2 id=b>T2</h2><p>y</p> anchor a yields T1 and x.
C7_RunStopsBeforeNextHeading ==
    (exSt.pc = "returned" /\ ExAnchorAt # 0) =>
        LET stop == IF HeadingsAfter = {} THEN Len(exSt.doc) + 1 ELSE MinOf(HeadingsAfter)
            n == Len(exSt.out.els)
        IN /\ exSt.out.whole = FALSE
           /\ n >= 1
           /\ exSt.out.els = SubSeq(exSt.doc, ExAnchorAt, ExAnchorAt + n - 1)
           /\ ExAnchorAt + n - 1 < stop
           /\ (\A i \in OtherStartsAfter : i > stop) => ExAnchorAt + n = stop
           /\ extractSection(ExampleDoc, ExampleItemA, <<ExampleItemA>>).els
                 = SubSeq(ExampleDoc, 1, 2)
           /\ extractSection(ExampleDoc, ExampleItemA, <<ExampleItemA, ExampleItemB>>).els
                 = SubSeq(ExampleDoc, 1, 2)

\* a run cut by a heading although siblings follow it
C7_Witness ==
    /\ exSt.pc = "returned"
    /\ ExAnchorAt = 1
    /\ Len(exSt.doc) = 3
    /\ exSt.doc[2].tag = "P"
    /\ exSt.doc[3].tag = "H2"
    /\ OtherStartsAfter = {}
    /\ Len(exSt.out.els) = 2

\* C8: when the anchor element is found, the run ends just before the first
\* following sibling that is a heading or whose id is the anchor of a
\* different TOC item of the same file, so it holds no element that starts
\* another item's section; an id that is the anchor of an item of another
\* file only does not end the run.
C8_RunStopsBeforeOtherAnchor ==
    (exSt.pc = "returned" /\ ExAnchorAt # 0) =>
        LET stops == HeadingsAfter \cup OtherStartsAfter
            stop == IF stops = {} THEN Len(exSt.doc) + 1 ELSE MinOf(stops)
        IN /\ exSt.out.whole = FALSE
           /\ exSt.out.els = SubSeq(exSt.doc, ExAnchorAt, stop - 1)
           /\ \A i \in 2..Len(exSt.out.els) : exSt.out.els[i].id \notin OtherAnchorsOfFile

\* two items of the same file, no heading between their anchors: the first
\* section ends before the second anchor
C8_Witness ==
    /\ exSt.pc = "returned"
    /\ ExAnchorAt = 1
    /\ Len(exSt.doc) = 3
    /\ exSt.doc[2] = [tag |-> "P", id |-> "", src |-> NoSrc]
    /\ exSt.doc[3] = [tag |-> "P", id |-> "b", src |-> NoSrc]
    /\ ExItem.anchor = "a"
    /\ "b" \in OtherAnchorsOfFile
    /\ Len(exSt.out.els) = 2

\* the id of a sibling is the anchor of an item of another file: the run goes on
C8_WitnessOtherFile ==
    /\ exSt.pc = "returned"
    /\ ExAnchorAt = 1
    /\ Len(exSt.doc) = 2
    /\ exSt.doc[2] = [tag |-> "P", id |-> "b", src |-> NoSrc]
    /\ \E t \in 1..Len(exSt.items) : exSt.items[t] = [title |-> <<"T">>, filePath |-> FileG, anchor |-> "b"]
    /\ "b" \notin OtherAnchorsOfFile
    /\ Len(exSt.out.els) = 2

(***************************************************************************)
(* The import, handleFileChange (ChapterInputModal.tsx lines 66-376).      *)
(*                                                                         *)
(* Strings that are compared or tested for emptiness keep their value;     *)
(* titles are sequences of code units.  A missing attribute and an empty   *)
(* one are both falsy in the source and are both written "" here (<<"">>   *)
(* for a path attribute); a null path variable is NoPath.                  *)
(***************************************************************************)
MAX_TITLE_LENGTH == 200
SUPPORTED_IMAGE_TYPES == {"image/jpeg", "image/png", "image/gif", "image/svg+xml"}

EpubMime == "application/epub+zip"
NcxType == "application/x-dtbncx+xml"
XhtmlType == "application/xhtml+xml"
HtmlType == "text/html"

\* truthiness of a path-valued string (null and '' are falsy)
TruthyPath(path) == path # NoPath /\ path # EmptyStr

ContainerPath == <<"META-INF", "container.xml">>
OpfPath == <<"OEBPS", "content.opf">>
NcxPath == <<"OEBPS", "nav", "toc.ncx">>
NavPath == <<"OEBPS", "nav", "nav.xhtml">>
Ch1Path == <<"OEBPS", "text", "ch1.xhtml">>
Ch2Path == <<"OEBPS", "text", "ch2.xhtml">>
ImgPath == <<"OEBPS", "img", "x.png">>

\* line 71
ErrInvalidType == Msg("invalid-file-type")
\* lines 94, 99, 103, 214: the Errors thrown for a missing structure
ThrownContainer == Msg("container.xml-not-found")
ThrownRootfile == Msg("opf-path-not-found-in-container.xml")
ThrownOpf(path) == MsgAt("opf-file-not-found", path)
ThrownToc(path) == MsgAt("toc-file-not-found", path)
\* thrown by JSZip.loadAsync for bytes that are no zip archive
ThrownBadZip == Msg("not-a-zip-archive")
\* the rejection of file.async() for an entry whose data cannot be decoded
\* (the outcome lines 181-185 catch for an image; lines 95, 104, 215 and 261
\* await the same call without a try block)
ThrownRead(path) == MsgAt("archive-entry-unreadable", path)
\* line 368 for a thrown value that is no Error: the message without the
\* context prefix
ErrProcessing_Generic(e) ==
    [msg |-> "unexpected-epub-error", arg |-> NoPath, cause |-> "", n |-> 0]
\* lines 368-369: 'EPUB処理エラー：' + e.message + ' 詳細は開発者コンソールを...'
ErrProcessing(e) == [msg |-> "epub-processing-error", arg |-> e.arg, cause |-> e.msg, n |-> 0]
\* lines 337-343
ErrNoToc == Msg("no-toc-file-identified")
ErrNoEntries(path) == MsgAt("toc-read-but-no-entries", path)
ErrNoContent == Msg("no-titles-or-content-extracted")
\* lines 88, 101, 155, 347
InfoParsingEpub == Msg("parsing-epub")
InfoParsingOpf == Msg("parsing-opf")
InfoParsingToc(path) == MsgAt("parsing-toc", path)
InfoAdded(n) == [msg |-> "chapters-extracted-and-added", arg |-> NoPath, cause |-> "", n |-> n]

(***************************************************************************)
(* The package document: title, manifest items in document order, and the  *)
(* toc attribute of the spine.  An item is [id, href, mediaType, nav]; nav *)
(* says whether its properties attribute includes "nav".                   *)
(***************************************************************************)
Item(id, href, mt, nav) == [id |-> id, href |-> href, mediaType |-> mt, nav |-> nav]

ChapterItems ==
    << Item("c1", <<"text", "ch1.xhtml">>, XhtmlType, FALSE),
       Item("c2", <<"text", "ch2.xhtml">>, XhtmlType, FALSE),
       Item("img", <<"img", "x.png">>, "image/png", FALSE) >>

OpfDocs ==
    { \* EPUB2: the NCX named by spine@toc
      [dcTitle |-> "Book", spineToc |-> "ncx",
       items |-> <<Item("ncx", <<"nav", "toc.ncx">>, NcxType, FALSE)>> \o ChapterItems],
      \* an NCX in the manifest, spine without toc attribute
      [dcTitle |-> "", spineToc |-> "",
       items |-> ChapterItems \o <<Item("ncx", <<"nav", "toc.ncx">>, NcxType, FALSE)>>],
      \* EPUB3: a navigation document, and an NCX beside it
      [dcTitle |-> "Book", spineToc |-> "ncx",
       items |-> <<Item("nav", <<"nav", "nav.xhtml">>, XhtmlType, TRUE),
                   Item("ncx", <<"nav", "toc.ncx">>, NcxType, FALSE)>> \o ChapterItems],
      \* spine@toc names a manifest item that is no TOC document
      [dcTitle |-> "", spineToc |-> "img",
       items |-> ChapterItems \o <<Item("ncx", <<"nav", "toc.ncx">>, NcxType, FALSE)>>],
      \* no table of contents at all
      [dcTitle |-> "", spineToc |-> "", items |-> ChapterItems] }

\* line 120: id && href && mediaType
IsValidItem(item) == item.id # "" /\ TruthyPath(item.href) /\ item.mediaType # ""

NoEntry == [href |-> NoPath, mediaType |-> "", id |-> ""]

\* line 122: the manifest entry of an item
manifestEntry(rootfile, item) ==
    [href |-> getAbsolutePath(rootfile, item.href), mediaType |-> item.mediaType, id |-> item.id]

\* positions of the items that lines 116-126 store
StoredItems(items) == {i \in 1..Len(items) : IsValidItem(items[i])}

MaxOf(S) == CHOOSE x \in S : \A y \in S : y <= x

\* manifestById[id] after the forEach of lines 116-126 (the last item stored
\* under a key wins); NoEntry when the key is absent
manifestById(rootfile, items, id) ==
    LET hits == {i \in StoredItems(items) : items[i].id = id}
    IN IF hits = {} THEN NoEntry ELSE manifestEntry(rootfile, items[MaxOf(hits)])

\* manifestByHref[resolvedHref] after the forEach of lines 116-126
manifestByHref(rootfile, items, resolvedHref) ==
    LET hits == {i \in StoredItems(items) :
                    getAbsolutePath(rootfile, items[i].href) = resolvedHref}
    IN IF hits = {} THEN NoEntry ELSE manifestEntry(rootfile, items[MaxOf(hits)])

\* Object.values(manifestById): one entry per key, in the order in which
\* the keys were first inserted
RECURSIVE manifestValues(_, _, _)
manifestValues(rootfile, items, n) ==
    IF n = 0 THEN <<>>
    ELSE LET before == manifestValues(rootfile, items, n - 1)
             isNewKey == /\ n \in StoredItems(items)
                         /\ \A j \in StoredItems(items) : j < n => items[j].id # items[n].id
         IN IF isNewKey
            THEN Append(before, manifestById(rootfile, items, items[n].id))
            ELSE before

NoTocRef == [tocPath |-> NoPath, tocMediaType |-> ""]

\* lines 129-136: the navigation document named by a manifest item
NavTocRef(rootfile, items) ==
    LET navs == {i \in 1..Len(items) : items[i].nav}
    IN IF navs = {} THEN NoTocRef
       ELSE LET navItem == items[MinOf(navs)]
                e == manifestById(rootfile, items, navItem.id)
            IN IF navItem.id # "" /\ e # NoEntry /\ e.mediaType \in {XhtmlType, HtmlType}
               THEN [tocPath |-> e.href, tocMediaType |-> e.mediaType]
               ELSE NoTocRef

\* lines 138-152: spine@toc, else the first NCX entry of the manifest
SpineTocRef(rootfile, opf) ==
    LET items == opf.items
        e == manifestById(rootfile, items, opf.spineToc)
    IN IF opf.spineToc # "" /\ e # NoEntry
       THEN IF e.mediaType \in {NcxType, XhtmlType, HtmlType}
            THEN [tocPath |-> e.href, tocMediaType |-> e.mediaType]
            ELSE NoTocRef
       ELSE LET vals == manifestValues(rootfile, items, Len(items))
                ncx == {i \in 1..Len(vals) : vals[i].mediaType = NcxType}
            IN IF ncx = {} THEN NoTocRef
               ELSE [tocPath |-> vals[MinOf(ncx)].href,
                     tocMediaType |-> vals[MinOf(ncx)].mediaType]

\* lines 129-152: tocPath and tocMediaType
TocRef(rootfile, opf) ==
    LET nav == NavTocRef(rootfile, opf.items)
    IN IF TruthyPath(nav.tocPath) THEN nav ELSE SpineTocRef(rootfile, opf)

(***************************************************************************)
(* The table of contents document: its entries in document order.  An      *)
(* entry is a navPoint of navMap (NCX) or a link (navigation document):    *)
(* [label, src, inTocNav, inRoleNav, inList].  label is the trimmed text,  *)
(* src the content@src / href attribute as [file, frag], the text before   *)
(* the first '#' and the text after it ("" when there is none); the three  *)
(* flags say whether the link lies in nav[epub:type='toc'], in             *)
(* nav[role~='doc-toc'], in an ol/ul of the body.                          *)
(***************************************************************************)
MaxTocEntries == 2

\* line 223: the four code units of the sentinel title, by their readings
UntitledChapter == <<"mu", "dai", "no", "shou">>
TitleA == <<"A">>
LongTitle == [i \in 1..(MAX_TITLE_LENGTH + 1) |-> "x"]

Src(f, a) == [file |-> f, frag |-> a]
NoSrcAttr == Src(EmptyStr, "")

NcxSrcs == {NoSrcAttr,
            Src(<<"..", "text", "ch1.xhtml">>, ""),
            Src(<<"..", "text", "ch1.xhtml">>, "a"),
            Src(<<"..", "text", "ch1.xhtml">>, "b"),
            Src(<<"..", "text", "ch2.xhtml">>, ""),
            Src(<<"..", "text", "ch2.xhtml">>, "zz"),
            Src(<<"..", "..">>, "a")}
NavSrcs == {NoSrcAttr, Src(<<"..", "text", "ch1.xhtml">>, "a"), Src(<<"..", "text", "ch2.xhtml">>, "")}

\* every src with a plain label; the empty and the long label where the
\* target exists
NcxLabelled ==
    ({TitleA} \X NcxSrcs)
        \cup {<<LongTitle, Src(<<"..", "text", "ch1.xhtml">>, "a")>>,
              <<(<<>>), Src(<<"..", "text", "ch2.xhtml">>, "")>>}
NcxEntries == {[label |-> e[1], src |-> e[2], inTocNav |-> FALSE, inRoleNav |-> FALSE,
                inList |-> FALSE] : e \in NcxLabelled}
NavEntries == {[label |-> l, src |-> r, inTocNav |-> f[1], inRoleNav |-> FALSE, inList |-> f[2]] :
                    l \in {TitleA}, r \in NavSrcs,
                    f \in {<<TRUE, TRUE>>, <<FALSE, TRUE>>, <<FALSE, FALSE>>}}

\* the documents a TOC file of the given media type may hold
TocDocs(mediaType) ==
    IF mediaType = NcxType THEN SeqsOf(NcxEntries, 0, MaxTocEntries)
    ELSE SeqsOf(NavEntries, 0, MaxTocEntries)

\* lines 220, 234-237: the navPoints, or the links the selectors match
navLinks(doc, mediaType) ==
    IF mediaType = NcxType THEN doc
    ELSE LET first == SelectSeq(doc, LAMBDA e : e.inTocNav \/ e.inRoleNav)
         IN IF Len(first) = 0 THEN SelectSeq(doc, LAMBDA e : e.inList) ELSE first

\* lines 223-230, 240-247 with the file part resolved against the package
\* document instead of the TOC document
tocItem_OpfBase(tocFile, entry) ==
    [title |-> IF entry.label # <<>> THEN entry.label ELSE UntitledChapter,
     filePath |-> IF TruthyPath(entry.src.file)
                  THEN getAbsolutePath(OpfPath, entry.src.file) ELSE NoPath,
     anchor |-> IF entry.src.frag # "" THEN entry.src.frag ELSE NULL]

\* lines 223-230, 240-247: the TocItem of a navPoint or link
tocItem(tocFile, entry) ==
    [title |-> IF entry.label # <<>> THEN entry.label ELSE UntitledChapter,
     filePath |-> IF TruthyPath(entry.src.file)
                  THEN getAbsolutePath(tocFile, entry.src.file) ELSE NoPath,
     anchor |-> IF entry.src.frag # "" THEN entry.src.frag ELSE NULL]

\* lines 218-249 with the items pushed in reverse document order
parseToc_Reversed(tocFile, doc, mediaType) ==
    LET links == navLinks(doc, mediaType)
    IN [i \in 1..Len(links) |-> tocItem(tocFile, links[Len(links) + 1 - i])]

\* lines 218-249: itemsToProcess
parseToc(tocFile, doc, mediaType) ==
    LET links == navLinks(doc, mediaType)
    IN [i \in 1..Len(links) |-> tocItem(tocFile, links[i])]

\* lines 253-256 with the ellipsis appended to the whole title
truncateTitle_NoCut(t) ==
    IF Len(t) > MAX_TITLE_LENGTH THEN t \o <<".", ".", ".">> ELSE t

\* lines 253-256
truncateTitle(t) ==
    IF Len(t) > MAX_TITLE_LENGTH
    THEN SubSeq(t, 1, MAX_TITLE_LENGTH) \o <<".", ".", ".">>
    ELSE t

\* lines 784-787 (and 849-852) of the second revision
truncateTitle_r2(t) ==
    IF Len(t) > MAX_TITLE_LENGTH
    THEN SubSeq(t, 1, MAX_TITLE_LENGTH) \o <<".", ".", ".">>
    ELSE t

\* line 258: chapterTitleText && item.filePath
isResolvable(item) == Len(truncateTitle(item.title)) > 0 /\ TruthyPath(item.filePath)

(***************************************************************************)
(* Chapter files and the chapter records built from them.                  *)
(***************************************************************************)
ImgRef(path) == [kind |-> "ref", path |-> path, mediaType |-> ""]
El(tag, id, src) == [tag |-> tag, id |-> id, src |-> src]

\* the markup of the chapter files of the archive
ChapterDoc(path) ==
    IF path = Ch1Path
    THEN << El("H2", "a", NoSrc), El("P", "", NoSrc), El("P", "b", NoSrc),
            El("P", "", ImgRef(<<"..", "img", "x.png">>)) >>
    ELSE << El("H1", "", NoSrc), El("P", "", ImgRef(<<"..", "img", "x.png">>)) >>

\* lines 172-193 without the test of the media type
embedImage_AnyType(src, htmlFilePath, zipFile, damaged, rootfile, items) ==
    IF src.kind # "ref" \/ ~TruthyPath(src.path) THEN src
    ELSE LET imageAbsPath == getAbsolutePath(htmlFilePath, src.path)
             imageManifestEntry == manifestByHref(rootfile, items, imageAbsPath)
         IN IF /\ imageManifestEntry # NoEntry
               /\ imageAbsPath \in zipFile
               /\ imageAbsPath \notin damaged
            THEN [kind |-> "data", path |-> imageAbsPath,
                  mediaType |-> imageManifestEntry.mediaType]
            ELSE src

\* lines 172-193 with the manifest looked up by the src as written, not by
\* the resolved path
embedImage_Unresolved(src, htmlFilePath, zipFile, damaged, rootfile, items) ==
    IF src.kind # "ref" \/ ~TruthyPath(src.path) THEN src
    ELSE LET imageManifestEntry == manifestByHref(rootfile, items, src.path)
         IN IF /\ imageManifestEntry # NoEntry
               /\ imageManifestEntry.mediaType \in SUPPORTED_IMAGE_TYPES
               /\ src.path \in zipFile
               /\ src.path \notin damaged
            THEN [kind |-> "data", path |-> src.path,
                  mediaType |-> imageManifestEntry.mediaType]
            ELSE src

\* lines 172-193 with a reference that is not embedded rewritten to its
\* resolved path
embedImage_Absolutize(src, htmlFilePath, zipFile, damaged, rootfile, items) ==
    IF src.kind # "ref" \/ ~TruthyPath(src.path) THEN src
    ELSE LET imageAbsPath == getAbsolutePath(htmlFilePath, src.path)
             imageManifestEntry == manifestByHref(rootfile, items, imageAbsPath)
         IN IF /\ imageManifestEntry # NoEntry
               /\ imageManifestEntry.mediaType \in SUPPORTED_IMAGE_TYPES
               /\ imageAbsPath \in zipFile
               /\ imageAbsPath \notin damaged
            THEN [kind |-> "data", path |-> imageAbsPath,
                  mediaType |-> imageManifestEntry.mediaType]
            ELSE [src EXCEPT !.path = imageAbsPath]

\* lines 172-193: the src of one img after embedding.  A src is
\* [kind, path, mediaType]: no attribute ("none"), a path ("ref"), or
\* 'data:<mediaType>;base64,<the bytes of the entry at path>' ("data").
embedImage(src, htmlFilePath, zipFile, damaged, rootfile, items) ==
    IF src.kind # "ref" \/ ~TruthyPath(src.path) THEN src
    ELSE LET imageAbsPath == getAbsolutePath(htmlFilePath, src.path)
             imageManifestEntry == manifestByHref(rootfile, items, imageAbsPath)
         IN IF /\ imageManifestEntry # NoEntry
               /\ imageManifestEntry.mediaType \in SUPPORTED_IMAGE_TYPES
               /\ imageAbsPath \in zipFile
               /\ imageAbsPath \notin damaged
            THEN [kind |-> "data", path |-> imageAbsPath,
                  mediaType |-> imageManifestEntry.mediaType]
            ELSE src

\* lines 161-210
processHtmlStringAndEmbedImages(content, htmlFilePath, zipFile, damaged, rootfile, items) ==
    [content EXCEPT !.els =
        [i \in 1..Len(content.els) |->
            [content.els[i] EXCEPT !.src = embedImage(@, htmlFilePath, zipFile, damaged, rootfile,
                                                        items)]]]

\* lines 316-320 and 324: the records pushed to chaptersWithContent
ChapterRecord(t, content) ==
    [title |-> t, kind |-> "html", content |-> content, path |-> NoPath, isHtmlContent |-> TRUE]
PlaceholderRecord(t, path) ==
    [title |-> t, kind |-> "file-not-found", content |-> NoContent, path |-> path,
     isHtmlContent |-> TRUE]

\* a loop that gives up at the first missing chapter file
RECURSIVE advanceLoop_StopAtMissing(_, _, _, _)
advanceLoop_StopAtMissing(i, items, chapters, zipFile) ==
    IF i > Len(items) THEN [idx |-> i, chapters |-> chapters]
    ELSE IF isResolvable(items[i])
         THEN IF items[i].filePath \in zipFile
              THEN [idx |-> i, chapters |-> chapters]
              ELSE [idx |-> Len(items) + 1, chapters |-> chapters]
         ELSE advanceLoop_StopAtMissing(i + 1, items, chapters, zipFile)

\* lines 252-329: the for loop from item i up to its next await (the read of
\* a chapter file that exists) or to its end; [idx, chapters]
RECURSIVE advanceLoop(_, _, _, _)
advanceLoop(i, items, chapters, zipFile) ==
    IF i > Len(items) THEN [idx |-> i, chapters |-> chapters]
    ELSE IF isResolvable(items[i])
         THEN IF items[i].filePath \in zipFile
              THEN [idx |-> i, chapters |-> chapters]
              ELSE advanceLoop(i + 1, items,
                               Append(chapters, PlaceholderRecord(truncateTitle(items[i].title),
                                                                  items[i].filePath)),
                               zipFile)
         ELSE advanceLoop(i + 1, items, chapters, zipFile)

(***************************************************************************)
(* The steps of handleFileChange.  A step runs from one await to the next. *)
(* What the archive holds is drawn when the step that reads it runs.       *)
(***************************************************************************)
Files == {[type |-> EpubMime, name |-> "book", isZip |-> TRUE],
          [type |-> EpubMime, name |-> "book", isZip |-> FALSE],
          [type |-> "application/pdf", name |-> "book", isZip |-> FALSE]}

\* the archives: any of the structure, chapter and image files may be missing
Archives ==
    {b \in SUBSET {ContainerPath, OpfPath, NcxPath, NavPath, Ch1Path, Ch2Path, ImgPath} :
        NcxPath \in b <=> NavPath \in b}

\* the entries of the archive whose data cannot be decoded: file.async()
\* rejects for them (lines 181-185 catch this for an image; lines 95, 104,
\* 215 and 261 await without a try block).  At most one entry is damaged.
Unreadables(z) == {{}} \cup {{path} : path \in z}

\* the full-path attribute of the rootfile element (NoPath: none)
RootfilePaths == {NoPath, OpfPath}

\* the handler goes on to its next await
Continue(next, info) ==
    /\ pc' = next
    /\ infoMessage' = info
    /\ UNCHANGED <<error, thrown, isProcessingFile, fileInputValue, batches, timerArmed>>

\* lines 366-370 without the finally block of lines 371-375
Catch_NoFinally(e) ==
    /\ thrown' = e
    /\ error' = ErrProcessing(e)
    /\ infoMessage' = NoInfo
    /\ pc' = "done"
    /\ UNCHANGED <<isProcessingFile, fileInputValue, batches, timerArmed>>

\* lines 366-375 with the Error swallowed: nothing is shown to the user
Catch_Swallow(e) ==
    /\ thrown' = e
    /\ isProcessingFile' = FALSE
    /\ fileInputValue' = ""
    /\ pc' = "done"
    /\ UNCHANGED <<error, infoMessage, batches, timerArmed>>

\* lines 366-375: an Error thrown in the try block, then the finally block
Catch(e) ==
    /\ thrown' = e
    /\ error' = ErrProcessing(e)
    /\ infoMessage' = NoInfo
    /\ isProcessingFile' = FALSE
    /\ fileInputValue' = ""
    /\ pc' = "done"
    /\ UNCHANGED <<batches, timerArmed>>

\* lines 335-343 without the test of tocItemsFound
specificError_FoundIgnored(tp, tmt, found) ==
    IF ~TruthyPath(tp) \/ tmt = "" THEN ErrNoToc ELSE ErrNoContent

\* lines 335-343: the message for an import without chapters
specificError(tp, tmt, found) ==
    IF ~TruthyPath(tp) \/ tmt = "" THEN ErrNoToc
    ELSE IF ~found THEN ErrNoEntries(tp)
    ELSE ErrNoContent

\* lines 334-364 calling onAddChaptersBatch once per chapter
FinishPerChapter(chapters, tp, tmt, found) ==
    /\ IF Len(chapters) = 0
       THEN /\ error' = specificError(tp, tmt, found)
            /\ infoMessage' = NoInfo
            /\ UNCHANGED <<batches, timerArmed>>
       ELSE /\ batches' = batches \o [i \in 1..Len(chapters) |-> <<chapters[i]>>]
            /\ infoMessage' = InfoAdded(Len(chapters))
            /\ timerArmed' = (timerArmed \/ closure.error = NoError)
            /\ UNCHANGED error
    /\ isProcessingFile' = FALSE
    /\ fileInputValue' = ""
    /\ pc' = "done"
    /\ UNCHANGED thrown

\* lines 334-364 and the finally block: the end of an import that did not throw
Finish(chapters, tp, tmt, found) ==
    /\ IF Len(chapters) = 0
       THEN /\ error' = specificError(tp, tmt, found)
            /\ infoMessage' = NoInfo
            /\ UNCHANGED <<batches, timerArmed>>
       ELSE /\ batches' = Append(batches, chapters)
            /\ infoMessage' = InfoAdded(Len(chapters))
            /\ timerArmed' = (timerArmed \/ closure.error = NoError)
            /\ UNCHANGED error
    /\ isProcessingFile' = FALSE
    /\ fileInputValue' = ""
    /\ pc' = "done"
    /\ UNCHANGED thrown

\* lines 252-329, 334: the loop goes on from item i: to the read of the next
\* chapter file, or to the end of the import
LoopFrom(i, items, chapters, found) ==
    \E adv \in {advanceLoop(i, items, chapters, zip)} :
       /\ chaptersWithContent' = adv.chapters
       /\ idx' = adv.idx
       /\ IF adv.idx <= Len(items)
          THEN Continue("chapter", infoMessage)
          ELSE Finish(adv.chapters, tocPath, tocMediaType, found)

\* lines 66-68: the change event without a file
SelectNoFile ==
    /\ pc = "idle"
    /\ UNCHANGED vars

\* lines 70-75 letting a file of any type through
RejectType_Never(f) == FALSE

\* line 70
RejectType(f) == f.type # EpubMime

\* lines 66-89: a file is chosen; up to the await of file.arrayBuffer()
SelectFile(f) ==
    /\ pc = "idle"
    /\ file' = f
    /\ closure' = [title |-> title, error |-> error, infoMessage |-> infoMessage,
                   isProcessingFile |-> isProcessingFile]
    /\ IF RejectType(f)
       THEN /\ error' = ErrInvalidType
            /\ infoMessage' = NoInfo
            /\ fileInputValue' = ""
            /\ pc' = "rejected"
            /\ UNCHANGED isProcessingFile
       ELSE /\ error' = NoError
            /\ infoMessage' = InfoParsingEpub
            /\ isProcessingFile' = TRUE
            /\ fileInputValue' = f.name
            /\ pc' = "load"
    /\ UNCHANGED <<title, zip, unreadable, rootfilePath, opfDoc, tocPath, tocMediaType, tocItemsFound,
                   tocDoc, itemsToProcess, chaptersWithContent, idx, chapterSpecificContent,
                   processedCount, thrown, batches, timerArmed, closeCalls, harnessVars>>

\* lines 89-95: the archive is opened and container.xml looked up
LoadZip ==
    /\ pc = "load"
    /\ IF ~file.isZip
       THEN /\ Catch(ThrownBadZip)
            /\ UNCHANGED <<zip, unreadable>>
       ELSE \E z \in Archives : \E u \in Unreadables(z) :
                /\ zip' = z
                /\ unreadable' = u
                /\ IF ContainerPath \notin z
                   THEN Catch(ThrownContainer)
                   ELSE Continue("container", infoMessage)
    /\ UNCHANGED <<title, file, closure, rootfilePath, opfDoc, tocPath, tocMediaType,
                   tocItemsFound, tocDoc, itemsToProcess, chaptersWithContent, idx,
                   chapterSpecificContent, processedCount, closeCalls, harnessVars>>

\* lines 95-104: container.xml is read and the package document looked up
ReadContainer ==
    /\ pc = "container"
    /\ IF ContainerPath \in unreadable
       THEN /\ Catch(ThrownRead(ContainerPath))
            /\ UNCHANGED rootfilePath
       ELSE \E rp \in RootfilePaths :
            /\ rootfilePath' = rp
            /\ IF ~TruthyPath(rp) THEN Catch(ThrownRootfile)
               ELSE IF rp \notin zip THEN Catch(ThrownOpf(rp))
               ELSE Continue("opf", InfoParsingOpf)
    /\ UNCHANGED <<title, file, closure, zip, unreadable, opfDoc, tocPath, tocMediaType,
                   tocItemsFound, tocDoc, itemsToProcess, chaptersWithContent, idx,
                   chapterSpecificContent, processedCount, closeCalls, harnessVars>>

\* lines 104-215: the package document is read, the manifest built, the TOC
\* file chosen and looked up
ReadOpf ==
    /\ pc = "opf"
    /\ IF rootfilePath \in unreadable
       THEN /\ Catch(ThrownRead(rootfilePath))
            /\ UNCHANGED <<opfDoc, title, tocPath, tocMediaType>>
       ELSE \E d \in OpfDocs :
            LET ref == TocRef(rootfilePath, d)
            IN /\ opfDoc' = d
               /\ title' = IF closure.title = "" \/ closure.title = file.name
                           THEN (IF d.dcTitle # "" THEN d.dcTitle ELSE file.name)
                           ELSE title
               /\ tocPath' = ref.tocPath
               /\ tocMediaType' = ref.tocMediaType
               /\ IF TruthyPath(ref.tocPath) /\ ref.tocMediaType # ""
                  THEN IF ref.tocPath \notin zip
                       THEN Catch(ThrownToc(ref.tocPath))
                       ELSE Continue("toc", InfoParsingToc(ref.tocPath))
                  ELSE Finish(chaptersWithContent, ref.tocPath, ref.tocMediaType,
                              tocItemsFound)
    /\ UNCHANGED <<file, closure, zip, unreadable, rootfilePath, tocItemsFound, tocDoc, itemsToProcess,
                   chaptersWithContent, idx, chapterSpecificContent, processedCount,
                   closeCalls, harnessVars>>

\* lines 215-261 with a second TOC resource tried: when the navigation
\* document yields no item with title and file path and the archive holds
\* the NCX, the NCX is read instead
ReadToc_FallBackToNcx ==
    /\ pc = "toc"
    /\ IF tocPath \in unreadable
       THEN /\ Catch(ThrownRead(tocPath))
            /\ UNCHANGED <<tocDoc, itemsToProcess, tocItemsFound, chaptersWithContent, idx,
                           tocPath, tocMediaType>>
       ELSE \E doc \in TocDocs(tocMediaType) :
            LET items == parseToc(tocPath, doc, tocMediaType)
            IN IF /\ tocMediaType # NcxType
                  /\ \A i \in 1..Len(items) : ~isResolvable(items[i])
                  /\ NcxPath \in zip
               THEN /\ tocPath' = NcxPath
                    /\ tocMediaType' = NcxType
                    /\ Continue("toc", infoMessage)
                    /\ UNCHANGED <<tocDoc, itemsToProcess, tocItemsFound, chaptersWithContent, idx>>
               ELSE /\ tocDoc' = doc
                    /\ itemsToProcess' = items
                    /\ tocItemsFound' = (Len(items) > 0)
                    /\ LoopFrom(1, items, chaptersWithContent, Len(items) > 0)
                    /\ UNCHANGED <<tocPath, tocMediaType>>
    /\ UNCHANGED <<title, file, closure, zip, unreadable, rootfilePath, opfDoc,
                   chapterSpecificContent, processedCount, closeCalls, harnessVars>>

\* lines 215-261: the TOC file is read and parsed; the loop over the items
\* starts
ReadToc ==
    /\ pc = "toc"
    /\ IF tocPath \in unreadable
       THEN /\ Catch(ThrownRead(tocPath))
            /\ UNCHANGED <<tocDoc, itemsToProcess, tocItemsFound, chaptersWithContent, idx>>
       ELSE \E doc \in TocDocs(tocMediaType) :
            LET items == parseToc(tocPath, doc, tocMediaType)
            IN /\ tocDoc' = doc
               /\ itemsToProcess' = items
               /\ tocItemsFound' = (Len(items) > 0)
               /\ LoopFrom(1, items, chaptersWithContent, Len(items) > 0)
    /\ UNCHANGED <<title, file, closure, zip, unreadable, rootfilePath, opfDoc, tocPath, tocMediaType,
                   chapterSpecificContent, processedCount, closeCalls, harnessVars>>

\* lines 261-314: the chapter file is read and its section extracted
ReadChapter ==
    /\ pc = "chapter"
    /\ IF itemsToProcess[idx].filePath \in unreadable
       THEN /\ Catch(ThrownRead(itemsToProcess[idx].filePath))
            /\ UNCHANGED chapterSpecificContent
       ELSE /\ chapterSpecificContent' =
                    extractSection(ChapterDoc(itemsToProcess[idx].filePath),
                                   itemsToProcess[idx], itemsToProcess)
            /\ Continue("embed", infoMessage)
    /\ UNCHANGED <<title, file, closure, zip, unreadable, rootfilePath, opfDoc, tocPath, tocMediaType,
                   tocItemsFound, tocDoc, itemsToProcess, chaptersWithContent, idx,
                   processedCount, closeCalls, harnessVars>>

\* lines 314-329: the images are embedded, the chapter is pushed, the loop
\* goes on
EmbedImages ==
    /\ pc = "embed"
    /\ \E item \in {itemsToProcess[idx]} :
         \E contentWithEmbeddedImages \in
                {processHtmlStringAndEmbedImages(chapterSpecificContent, item.filePath, zip,
                                                 unreadable, rootfilePath, opfDoc.items)} :
           \E pushed \in {Append(chaptersWithContent,
                                 ChapterRecord(truncateTitle(item.title),
                                               contentWithEmbeddedImages))} :
               LoopFrom(idx + 1, itemsToProcess, pushed, tocItemsFound)
    /\ processedCount' = processedCount + 1
    /\ UNCHANGED <<title, file, closure, zip, unreadable, rootfilePath, opfDoc, tocPath, tocMediaType,
                   tocItemsFound, tocDoc, itemsToProcess, chapterSpecificContent,
                   closeCalls, harnessVars>>

\* lines 358-362: the timer set after a successful import fires; the callback
\* reads the state values the handler closed over
TimerFires ==
    /\ timerArmed
    /\ timerArmed' = FALSE
    /\ closeCalls' = IF /\ ~closure.isProcessingFile
                        /\ closure.infoMessage.msg = "chapters-extracted-and-added"
                        /\ closure.error = NoError
                     THEN closeCalls + 1 ELSE closeCalls
    /\ UNCHANGED <<modalVars, pc, localVars, batches, harnessVars>>

Init ==
    /\ ModalMounted
    /\ pathSt = [pc |-> "off"]
    /\ exSt = [pc |-> "off"]
    /\ call = [pc |-> "off"]

Next ==
    \/ SelectNoFile
    \/ \E f \in Files : SelectFile(f)
    \/ LoadZip
    \/ ReadContainer
    \/ ReadOpf
    \/ ReadToc
    \/ ReadChapter
    \/ EmbedImages
    \/ TimerFires

Spec == Init /\ [][Next]_vars

(***************************************************************************)
(* C1 - C6: the chapter assembly and the outcome of an import.             *)
(***************************************************************************)
\* the import ended without an Error, having parsed its TOC file
Assembled == pc = "done" /\ thrown = NoError /\ TruthyPath(tocPath) /\ tocMediaType # ""

\* the entries the TOC parser matched, in document order
MatchedEntries ==
    IF tocMediaType = NcxType THEN tocDoc
    ELSE IF \E i \in 1..Len(tocDoc) : tocDoc[i].inTocNav \/ tocDoc[i].inRoleNav
         THEN SelectSeq(tocDoc, LAMBDA e : e.inTocNav \/ e.inRoleNav)
         ELSE SelectSeq(tocDoc, LAMBDA e : e.inList)

\* a TOC item with both a title and a file path
HasTitleAndPath(item) == item.title # <<>> /\ item.filePath \notin {NoPath, EmptyStr}

\* the resolvable TOC items, in TOC order
Resolvable == SelectSeq(itemsToProcess, HasTitleAndPath)

\* the title as emitted: cut to MAX_TITLE_LENGTH code units plus "..."
Emitted(t) ==
    IF Len(t) <= MAX_TITLE_LENGTH THEN t
    ELSE [i \in 1..(MAX_TITLE_LENGTH + 3) |-> IF i <= MAX_TITLE_LENGTH THEN t[i] ELSE "."]

\* C1: an import that reaches chapter assembly emits exactly one
\* ChapterRecord per TOC entry with a title and a file path, in TOC document
\* order: the items are the matched entries of the TOC document in document
\* order, and the Nth record carries the (possibly truncated) title and the
\* target of the Nth resolvable item; nothing is reordered or deduplicated.
C1_OneRecordPerEntryInTocOrder ==
    Assembled =>
        /\ Len(itemsToProcess) = Len(MatchedEntries)
        /\ \A i \in 1..Len(itemsToProcess) :
              /\ itemsToProcess[i].title
                    = (IF MatchedEntries[i].label = <<>> THEN UntitledChapter
                       ELSE MatchedEntries[i].label)
              /\ itemsToProcess[i].anchor
                    = (IF MatchedEntries[i].src.frag = "" THEN NULL
                       ELSE MatchedEntries[i].src.frag)
              /\ (itemsToProcess[i].filePath = NoPath) <=> (MatchedEntries[i].src.file = EmptyStr)
        /\ Len(chaptersWithContent) = Len(Resolvable)
        /\ \A n \in 1..Len(Resolvable) :
              /\ chaptersWithContent[n].title = Emitted(Resolvable[n].title)
              /\ chaptersWithContent[n].kind = "file-not-found"
                    => chaptersWithContent[n].path = Resolvable[n].filePath
              /\ chaptersWithContent[n].kind = "html"
                    => \/ chaptersWithContent[n].content.whole
                       \/ chaptersWithContent[n].content.els[1].id = Resolvable[n].anchor
        /\ chaptersWithContent # <<>> => batches = <<chaptersWithContent>>

\* two entries with the same target and different titles, the longer title
\* first: two records, in that order
C1_Witness ==
    /\ Assembled
    /\ Len(itemsToProcess) = 2
    /\ itemsToProcess[1].title = LongTitle
    /\ itemsToProcess[2].title = TitleA
    /\ itemsToProcess[1].filePath = Ch1Path
    /\ itemsToProcess[2].filePath = Ch1Path
    /\ itemsToProcess[1].anchor = itemsToProcess[2].anchor
    /\ Len(batches) = 1
    /\ Len(batches[1]) = 2
    /\ batches[1][1].title # batches[1][2].title
    /\ batches[1][1].content = batches[1][2].content

\* C2: a TOC entry whose file is not in the archive yields, at its own
\* position, a placeholder record that names the file path; the other
\* entries yield their chapters, and no Error is raised.
C2_MissingFileYieldsPlaceholder ==
    /\ itemsToProcess # <<>> =>
          \/ thrown = NoError
          \/ \E path \in zip : thrown = ThrownRead(path)
    /\ Len(chaptersWithContent) <= Len(Resolvable)
    /\ \A n \in 1..Len(chaptersWithContent) :
          IF Resolvable[n].filePath \in zip
          THEN /\ chaptersWithContent[n].kind = "html"
               /\ chaptersWithContent[n].content.els # <<>>
          ELSE /\ chaptersWithContent[n].kind = "file-not-found"
               /\ chaptersWithContent[n].path = Resolvable[n].filePath
    /\ Assembled =>
          /\ Len(chaptersWithContent) = Len(Resolvable)
          /\ chaptersWithContent # <<>> => batches = <<chaptersWithContent>>

\* two resolvable entries, the file of the first is missing: a placeholder,
\* then a chapter
C2_Witness ==
    /\ Assembled
    /\ Len(Resolvable) = 2
    /\ Resolvable[1].filePath \notin zip
    /\ Resolvable[2].filePath \in zip
    /\ Len(batches) = 1
    /\ batches[1][1].kind = "file-not-found"
    /\ batches[1][1].path = Ch1Path
    /\ batches[1][2].kind = "html"

C3_WitnessAborted ==
    /\ pc = "done"
    /\ thrown = ThrownRead(Ch2Path)
    /\ Len(chaptersWithContent) = 1
    /\ batches = <<>>

\* the import ended without an Error and without a chapter
EndedEmpty == pc = "done" /\ thrown = NoError /\ chaptersWithContent = <<>>

\* C4: an import that ends with no ChapterRecord and no Error shows exactly
\* one of three messages: "no TOC file identified" exactly when no TOC
\* reference was found, "TOC read but no entries" exactly when a reference
\* was found and no entry was matched, "titles/content could not be
\* extracted" exactly when entries were matched but none had a title and a
\* file path.
C4_EmptyResultMessageByStage ==
    EndedEmpty =>
        /\ infoMessage = NoInfo
        /\ batches = <<>>
        /\ error.msg \in {"no-toc-file-identified", "toc-read-but-no-entries",
                          "no-titles-or-content-extracted"}
        /\ error.msg = "no-toc-file-identified" <=> tocPath = NoPath
        /\ error.msg = "toc-read-but-no-entries"
              <=> (tocPath # NoPath /\ Len(MatchedEntries) = 0)
        /\ error.msg = "toc-read-but-no-entries" => error.arg = tocPath
        /\ error.msg = "no-titles-or-content-extracted"
              <=> (tocPath # NoPath /\ Len(MatchedEntries) > 0 /\ Len(Resolvable) = 0)

\* an NCX with an empty navMap
C4_Witness ==
    /\ EndedEmpty
    /\ tocMediaType = NcxType
    /\ tocPath = NcxPath
    /\ tocDoc = <<>>
    /\ error = ErrNoEntries(NcxPath)

\* entries were matched, none has a file path
C4_WitnessNoContent ==
    /\ EndedEmpty
    /\ Len(tocDoc) = 2
    /\ Len(itemsToProcess) = 2
    /\ error = ErrNoContent

\* no TOC reference in the package document
C4_WitnessNoToc ==
    /\ EndedEmpty
    /\ tocPath = NoPath
    /\ error = ErrNoToc

StructuralErrors ==
    {"container.xml-not-found", "opf-path-not-found-in-container.xml",
     "opf-file-not-found", "toc-file-not-found"}

\* C5: each structural absence (container.xml, the rootfile full-path, the
\* package document, the TOC file that was identified) aborts the import
\* with a message of its own: the Error is raised exactly in that case, no
\* later stage has run, no chapter is added, and the error is shown.
C5_StructuralAbsenceAborts ==
    /\ thrown.msg \in StructuralErrors =>
          /\ pc = "done"
          /\ error = ErrProcessing(thrown)
          /\ error # NoError
          /\ infoMessage = NoInfo
          /\ batches = <<>>
          /\ chaptersWithContent = <<>>
          /\ tocDoc = <<>> /\ itemsToProcess = <<>> /\ idx = 0 /\ processedCount = 0
    /\ thrown.msg = "container.xml-not-found"
          <=> (pc = "done" /\ file.isZip /\ ContainerPath \notin zip)
    /\ thrown.msg = "container.xml-not-found" => rootfilePath = NoPath
    /\ thrown.msg = "opf-path-not-found-in-container.xml"
          <=> (pc = "done" /\ ContainerPath \in zip /\ rootfilePath = NoPath
                           /\ thrown # ThrownRead(ContainerPath))
    /\ thrown.msg = "opf-file-not-found"
          <=> (pc = "done" /\ ContainerPath \in zip /\ rootfilePath # NoPath
                           /\ rootfilePath \notin zip)
    /\ thrown.msg \in {"container.xml-not-found", "opf-path-not-found-in-container.xml",
                       "opf-file-not-found"}
          => opfDoc.items = <<>> /\ tocPath = NoPath
    /\ thrown.msg = "toc-file-not-found"
          <=> (pc = "done" /\ tocPath # NoPath /\ tocPath \notin zip)
    /\ Cardinality({ThrownContainer.msg, ThrownRootfile.msg, ThrownOpf(OpfPath).msg,
                    ThrownToc(NcxPath).msg}) = 4

\* the TOC file named by the package document is not in the archive
C5_Witness ==
    /\ pc = "done"
    /\ thrown = ThrownToc(NcxPath)
    /\ error = ErrProcessing(ThrownToc(NcxPath))
    /\ Ch1Path \in zip
    /\ batches = <<>>

\* the package document is not in the archive
C5_WitnessOpf ==
    /\ pc = "done"
    /\ thrown = ThrownOpf(OpfPath)
    /\ error.cause = "opf-file-not-found"

\* C6: a file whose declared type is not application/epub+zip is rejected
\* before any parsing: the error message is set, isProcessingFile is never
\* true, the archive is never opened and no chapter is added.
C6_WrongTypeRejected ==
    (pc # "idle" /\ file.type # EpubMime) =>
        /\ pc = "rejected"
        /\ error = ErrInvalidType
        /\ infoMessage = NoInfo
        /\ isProcessingFile = FALSE
        /\ fileInputValue = ""
        /\ zip = {}
        /\ thrown = NoError
        /\ chaptersWithContent = <<>>
        /\ batches = <<>>

\* a PDF was chosen
C6_Witness ==
    /\ pc = "rejected"
    /\ file.type = "application/pdf"
    /\ error = ErrInvalidType

(***************************************************************************)
(* C11: the two indices of the manifest (lines 113-126).                   *)
(***************************************************************************)
MaxManifestItems == 3

\* keys of manifestById and of manifestByHref after the forEach
manifestByIdKeys(items) == {items[i].id : i \in StoredItems(items)}
manifestByHrefKeys(rootfile, items) ==
    {getAbsolutePath(rootfile, items[i].href) : i \in StoredItems(items)}

\* the manifests: ids and hrefs may repeat, two hrefs may resolve to one
\* path, an item may lack its id
ManifestItemsIn ==
    {Item(i, h, m, FALSE) : i \in {"a", "b"}, h \in {<<"x">>, <<"y">>, <<".", "x">>},
                            m \in {XhtmlType, "image/png"}}
        \cup {Item("", <<"x">>, XhtmlType, FALSE)}
Manifests == SeqsOf(ManifestItemsIn, 0, MaxManifestItems)

InitManifest ==
    /\ ModalMounted
    /\ pathSt = [pc |-> "off"]
    /\ exSt = [pc |-> "off"]
    /\ call \in {[pc |-> "call", fn |-> "manifest", items |-> m, byId |-> <<>>, byHref |-> <<>>] :
                    m \in Manifests}

\* lines 113-126 run on the manifest
BuildManifest ==
    /\ call.pc = "call"
    /\ call' = [call EXCEPT
                  !.pc = "returned",
                  !.byId = [k \in manifestByIdKeys(call.items) |->
                                manifestById(OpfPath, call.items, k)],
                  !.byHref = [k \in manifestByHrefKeys(OpfPath, call.items) |->
                                manifestByHref(OpfPath, call.items, k)]]
    /\ UNCHANGED <<pathSt, exSt, importVars>>

NextManifest == BuildManifest

SpecManifest == InitManifest /\ [][NextManifest]_vars

\* the set of entries an index holds
EntriesOf(index) == {index[k] : k \in DOMAIN index}

\* C11: for all manifests, including ones that repeat an id or an href,
\* manifestById and manifestByHref hold the same set of entries: the same
\* number of keys, every entry found by id is the entry stored under its
\* href and vice versa, with the same mediaType per href.
C11_IndicesHoldSameEntries ==
    call.pc = "returned" =>
        /\ Cardinality(DOMAIN call.byId) = Cardinality(DOMAIN call.byHref)
        /\ \A id \in DOMAIN call.byId :
              /\ call.byId[id].href \in DOMAIN call.byHref
              /\ call.byHref[call.byId[id].href] = call.byId[id]
        /\ \A h \in DOMAIN call.byHref :
              /\ call.byHref[h].id \in DOMAIN call.byId
              /\ call.byId[call.byHref[h].id] = call.byHref[h]

\* no id and no resolved href occurs twice among the stored items
DistinctKeys(items) ==
    \A i, j \in StoredItems(items) :
        i # j => /\ items[i].id # items[j].id
                 /\ getAbsolutePath(OpfPath, items[i].href)
                        # getAbsolutePath(OpfPath, items[j].href)

\* for manifests without a repeated id or resolved href the two indices do
\* hold the same entries; in all manifests each index holds stored entries
\* under their own key
C11_DistinctKeysConsistent ==
    call.pc = "returned" =>
        /\ \A id \in DOMAIN call.byId : call.byId[id].id = id
        /\ \A h \in DOMAIN call.byHref : call.byHref[h].href = h
        /\ DistinctKeys(call.items) =>
              /\ EntriesOf(call.byId) = EntriesOf(call.byHref)
              /\ Cardinality(DOMAIN call.byId) = Cardinality(DOMAIN call.byHref)
              /\ Cardinality(DOMAIN call.byId) = Cardinality(StoredItems(call.items))

C11_DistinctKeysWitness ==
    /\ call.pc = "returned"
    /\ Len(call.items) = 3
    /\ DistinctKeys(call.items)
    /\ Cardinality(DOMAIN call.byId) = 2

(***************************************************************************)
(* C12: the truncation of chapter titles (lines 253-256, 784-787).         *)
(***************************************************************************)
MaxExcess == 5

\* titles of every length up to MAX_TITLE_LENGTH + MaxExcess; the code units
\* differ from position to position and none is "."
TitleOfLength(n, a, b) == [i \in 1..n |-> IF i % 3 = 0 THEN a ELSE b]
TitlesIn ==
    {TitleOfLength(n, u[1], u[2]) : n \in 0..(MAX_TITLE_LENGTH + MaxExcess),
                                    u \in {<<"x", "y">>, <<"y", "z">>}}

InitTitle ==
    /\ ModalMounted
    /\ pathSt = [pc |-> "off"]
    /\ exSt = [pc |-> "off"]
    /\ call \in {[pc |-> "call", fn |-> "title", title |-> t, out |-> <<>>, out2 |-> <<>>] :
                    t \in TitlesIn}

\* lines 253-256 run on the title of a TOC item (out), and lines 784-787 (out2)
TruncateTitle ==
    /\ call.pc = "call"
    /\ call' = [call EXCEPT !.pc = "returned",
                            !.out = truncateTitle(call.title),
                            !.out2 = truncateTitle_r2(call.title)]
    /\ UNCHANGED <<pathSt, exSt, importVars>>

NextTitle == TruncateTitle

SpecTitle == InitTitle /\ [][NextTitle]_vars

\* t is the first 200 code units of title followed by "..."
IsCutOf(t, full) ==
    /\ Len(t) = 203
    /\ \A i \in 1..200 : t[i] = full[i]
    /\ \A i \in 201..203 : t[i] = "."

\* C12: a title longer than 200 code units is emitted as exactly its first
\* 200 code units followed by "..." (length 203); a title of length 200 or
\* less is emitted unchanged; no emitted title is longer than 203.
C12_TitleTruncation ==
    call.pc = "returned" =>
        /\ Len(call.title) > 200 => IsCutOf(call.out, call.title) /\ IsCutOf(call.out2, call.title)
        /\ Len(call.title) <= 200 => call.out = call.title /\ call.out2 = call.title
        /\ Len(call.out) <= 203
        /\ Len(call.out2) <= 203

\* a title of 202 code units was cut
C12_Witness ==
    /\ call.pc = "returned"
    /\ Len(call.title) = 202
    /\ Len(call.out) = 203
    /\ call.out[200] = call.title[200]
    /\ call.out[202] = "."
    /\ call.title[202] # "."

\* a title of exactly 200 code units is untouched
C12_WitnessAtLimit ==
    /\ call.pc = "returned"
    /\ Len(call.title) = 200
    /\ call.out = call.title

(***************************************************************************)
(* C13 - C15: the image embedder (lines 161-210).                          *)
(***************************************************************************)
MaxImages == 2

ImgYPath == <<"OEBPS", "img", "y.webp">>
ImgZPath == <<"OEBPS", "img", "z.png">>
DataSrc == [kind |-> "data", path |-> <<"OEBPS", "img", "w.gif">>, mediaType |-> "image/gif"]

\* the src attributes of the imgs of a chapter of OEBPS/text/
EmbedSrcs ==
    {NoSrc, ImgRef(EmptyStr), DataSrc,
     ImgRef(<<"..", "img", "x.png">>), ImgRef(<<"..", "img", "y.webp">>),
     ImgRef(<<"..", "img", "z.png">>)}
EmbedMarkups ==
    {[whole |-> TRUE, els |-> [i \in 1..Len(q) |-> El("P", "", q[i])]] :
        q \in SeqsOf(EmbedSrcs, 0, MaxImages)}
\* z.png is never in the manifest; y.webp has an unsupported or a supported type
EmbedManifests ==
    { << Item("x", <<"img", "x.png">>, "image/png", FALSE),
         Item("y", <<"img", "y.webp">>, "image/webp", FALSE) >>,
      << Item("x", <<"img", "x.png">>, "image/svg+xml", FALSE),
         Item("y", <<"img", "y.webp">>, "image/jpeg", FALSE) >>,
      << >> }
EmbedZips == SUBSET {ImgPath, ImgYPath, ImgZPath}

InitEmbed ==
    /\ ModalMounted
    /\ pathSt = [pc |-> "off"]
    /\ exSt = [pc |-> "off"]
    /\ call \in {[pc |-> "call", fn |-> "embed", content |-> m, items |-> mf, zipFile |-> z,
                  damaged |-> d, out |-> NoContent, out2 |-> NoContent] :
                    m \in EmbedMarkups, mf \in EmbedManifests,
                    z \in EmbedZips, d \in SUBSET {ImgPath, ImgYPath, ImgZPath}}
    /\ call.damaged \in Unreadables(call.zipFile)

\* lines 161-210 applied to the markup of a chapter
EmbedOnce ==
    /\ call.pc = "call"
    /\ call' = [call EXCEPT !.pc = "once",
                  !.out = processHtmlStringAndEmbedImages(call.content, Ch1Path, call.zipFile,
                                                          call.damaged, OpfPath, call.items)]
    /\ UNCHANGED <<pathSt, exSt, importVars>>

\* lines 161-210 applied to their own result
EmbedAgain ==
    /\ call.pc = "once"
    /\ call' = [call EXCEPT !.pc = "twice",
                  !.out2 = processHtmlStringAndEmbedImages(call.out, Ch1Path, call.zipFile,
                                                           call.damaged, OpfPath, call.items)]
    /\ UNCHANGED <<pathSt, exSt, importVars>>

NextEmbed == EmbedOnce \/ EmbedAgain

SpecEmbed == InitEmbed /\ [][NextEmbed]_vars

\* the src of the i-th img before and after the first application
SrcIn(i) == call.content.els[i].src
SrcOut(i) == call.out.els[i].src
\* a src that is a path, i.e. present, not empty and no data: reference
IsPathSrc(src) == src.kind = "ref" /\ src.path # EmptyStr
\* where a src of a chapter of OEBPS/text/ points in the archive; every src of
\* EmbedSrcs that is a path has the form ../img/<name>
TargetOf(src) == <<"OEBPS", "img", src.path[3]>>
\* the manifest items whose href, taken from OEBPS/, is the path
ItemsAt(path) ==
    {i \in 1..Len(call.items) : <<"OEBPS">> \o call.items[i].href = path}
InManifest(path) == ItemsAt(path) # {}
MediaTypeAt(path) == call.items[CHOOSE i \in ItemsAt(path) : TRUE].mediaType
Supported(path) ==
    InManifest(path)
        /\ MediaTypeAt(path) \in {"image/jpeg", "image/png", "image/gif", "image/svg+xml"}
Embedded(called) == call.pc \in called /\ Len(call.out.els) = Len(call.content.els)

\* C13: an image reference whose resolved path is not in the manifest, or
\* whose media type is not one of the four supported ones, or whose file is
\* not in the archive keeps its src; the embedder returns (no exception) with
\* as many elements as it was given.
C13_UnembeddableLeftUnchanged ==
    call.pc \in {"once", "twice"} =>
        /\ Len(call.out.els) = Len(call.content.els)
        /\ \A i \in 1..Len(call.content.els) :
              (IsPathSrc(SrcIn(i))
                  /\ (\/ ~InManifest(TargetOf(SrcIn(i)))
                      \/ ~Supported(TargetOf(SrcIn(i)))
                      \/ TargetOf(SrcIn(i)) \notin call.zipFile))
                 => SrcOut(i) = SrcIn(i)

\* y.webp is in the archive and in the manifest as image/webp: src unchanged
C13_Witness ==
    /\ call.pc = "once"
    /\ Len(call.content.els) = 2
    /\ SrcIn(1) = ImgRef(<<"..", "img", "y.webp">>)
    /\ InManifest(ImgYPath) /\ MediaTypeAt(ImgYPath) = "image/webp"
    /\ ImgYPath \in call.zipFile
    /\ call.damaged = {}
    /\ SrcOut(1) = SrcIn(1)
    /\ SrcOut(2).kind = "data"

\* not in the manifest; in the manifest but not in the archive
C13_WitnessNotInManifest ==
    /\ call.pc = "once"
    /\ Len(call.content.els) = 1
    /\ SrcIn(1) = ImgRef(<<"..", "img", "z.png">>)
    /\ ImgZPath \in call.zipFile
    /\ SrcOut(1) = SrcIn(1)
C13_WitnessNotInArchive ==
    /\ call.pc = "once"
    /\ Len(call.content.els) = 1
    /\ SrcIn(1) = ImgRef(<<"..", "img", "x.png">>)
    /\ Supported(ImgPath)
    /\ ImgPath \notin call.zipFile
    /\ SrcOut(1) = SrcIn(1)

\* the data: reference that replaces a src pointing at path
DataRef(path) == [kind |-> "data", path |-> path, mediaType |-> MediaTypeAt(path)]

\* C14 as stated: every img whose src is a path that resolves to a manifest
\* entry of a supported media type and whose file is in the archive gets
\* the src 'data:<media type>;base64,<bytes>'.
C14_EmbeddedWheneverInArchive ==
    call.pc \in {"once", "twice"} =>
        \A i \in 1..Len(call.content.els) :
            (IsPathSrc(SrcIn(i)) /\ Supported(TargetOf(SrcIn(i)))
                /\ TargetOf(SrcIn(i)) \in call.zipFile)
               => SrcOut(i) = DataRef(TargetOf(SrcIn(i)))

\* C14, amended: every img whose src is a path that resolves to a manifest
\* entry of a supported media type, whose file is in the archive and whose
\* bytes can be read from it gets the src 'data:<media type>;base64,<bytes>'
\* (a file that is there and cannot be read leaves the src as it was).
C14_EmbeddedWhenReadable ==
    call.pc \in {"once", "twice"} =>
        \A i \in 1..Len(call.content.els) :
            (IsPathSrc(SrcIn(i)) /\ Supported(TargetOf(SrcIn(i)))
                /\ TargetOf(SrcIn(i)) \in call.zipFile)
               => IF TargetOf(SrcIn(i)) \in call.damaged
                  THEN SrcOut(i) = SrcIn(i)
                  ELSE SrcOut(i) = DataRef(TargetOf(SrcIn(i)))

\* x.png (image/svg+xml in this manifest) and y.webp (image/jpeg) are embedded
C14_Witness ==
    /\ call.pc = "once"
    /\ Len(call.content.els) = 2
    /\ SrcIn(1) = ImgRef(<<"..", "img", "x.png">>)
    /\ SrcIn(2) = ImgRef(<<"..", "img", "y.webp">>)
    /\ call.damaged = {ImgZPath}
    /\ SrcOut(1) = [kind |-> "data", path |-> ImgPath, mediaType |-> "image/svg+xml"]
    /\ SrcOut(2) = [kind |-> "data", path |-> ImgYPath, mediaType |-> "image/jpeg"]

\* the srcs of the imgs of a chapter record
SrcsOf(record) == {record.content.els[i].src : i \in 1..Len(record.content.els)}

\* in the import: the imgs of every chapter passed on are embedded exactly
\* when x.png is in the manifest (it always is, as image/png), in the archive
\* and readable; every record passed on has isHtmlContent = true
C14_ImportEmbedsImages ==
    \A b \in 1..Len(batches) : \A n \in 1..Len(batches[b]) :
        /\ batches[b][n].isHtmlContent
        /\ \A src \in SrcsOf(batches[b][n]) :
              src.kind # "none" =>
                 IF ImgPath \in zip /\ ImgPath \notin unreadable
                 THEN src = [kind |-> "data", path |-> ImgPath, mediaType |-> "image/png"]
                 ELSE src = ImgRef(<<"..", "img", "x.png">>)

\* the two-chapter NCX scenario: two records, the second holds the data:
\* reference instead of ../img/x.png
C14_WitnessTwoChapters ==
    /\ pc = "done"
    /\ tocMediaType = NcxType
    /\ Len(batches) = 1
    /\ Len(batches[1]) = 2
    /\ itemsToProcess[1].filePath = Ch1Path
    /\ itemsToProcess[2].filePath = Ch2Path
    /\ batches[1][1].isHtmlContent /\ batches[1][2].isHtmlContent
    /\ SrcsOf(batches[1][2]) = {NoSrc, [kind |-> "data", path |-> ImgPath,
                                         mediaType |-> "image/png"]}

\* the image cannot be read or is missing: both chapters are produced all the
\* same, with the reference as it was
C13_WitnessChapterStillProduced ==
    /\ pc = "done"
    /\ thrown = NoError
    /\ ImgPath \in unreadable
    /\ Len(batches) = 1
    /\ Len(batches[1]) = 2
    /\ ImgRef(<<"..", "img", "x.png">>) \in SrcsOf(batches[1][2])

\* C15: applying the embedder to its own result changes no image reference.
C15_EmbedIdempotent ==
    call.pc = "twice" =>
        /\ Len(call.out2.els) = Len(call.out.els)
        /\ \A i \in 1..Len(call.out.els) : call.out2.els[i].src = call.out.els[i].src
        /\ call.out2 = call.out

\* one reference was embedded and one was left alone the first time; the
\* second application changed neither
C15_Witness ==
    /\ call.pc = "twice"
    /\ Len(call.content.els) = 2
    /\ SrcIn(1) = ImgRef(<<"..", "img", "x.png">>)
    /\ SrcOut(1).kind = "data"
    /\ SrcIn(2) = ImgRef(<<"..", "img", "z.png">>)
    /\ SrcOut(2) = SrcIn(2)
    /\ call.out2.els[1].src = SrcOut(1)
    /\ call.out2.els[2].src = SrcOut(2)

(***************************************************************************)
(* C16: the chapter list of the application (App.tsx).  A stored chapter   *)
(* is [title, content, isHtmlContent]; isHtmlContent is "true", "false" or *)
(* "undefined" (the property is optional).  chapters is the list kept by   *)
(* the handlers of lines 432-466, chapters_r1 the list kept by those of    *)
(* lines 89-114.  log is history: for every chapter added, in order, how   *)
(* it was added and the isHtmlContent it was passed with.                  *)
(***************************************************************************)
MaxChapters == 3

JsBool(b) == IF b THEN "true" ELSE "false"

\* the content typed into the modal
TypedContent == [whole |-> TRUE, els |-> <<El("#text", "", NoSrc)>>]
\* what handleFileChange can pass on: the records of lines 316-320 and 324 ...
ImportedRecords ==
    {ChapterRecord(t, [whole |-> TRUE, els |-> ChapterDoc(Ch2Path)]) : t \in {TitleA, UntitledChapter}}
        \cup {PlaceholderRecord(t, Ch1Path) : t \in {TitleA, UntitledChapter}}
\* ... and what another caller of onAddChaptersBatch can: plain text records
BatchRecords ==
    ImportedRecords
        \cup {[ChapterRecord(TitleA, TypedContent) EXCEPT !.isHtmlContent = FALSE]}

\* App.tsx lines 434-443: the chapter built by handleAddChapter
newChapter(t, content) == [title |-> t, content |-> content, isHtmlContent |-> "false"]
\* App.tsx lines 91-97: no isHtmlContent property
newChapter_r1(t, content) == [title |-> t, content |-> content, isHtmlContent |-> "undefined"]

\* App.tsx lines 454-466: the chapters built by handleAddChaptersBatch
newChapters(chaptersData) ==
    [i \in 1..Len(chaptersData) |->
        [title |-> chaptersData[i].title, content |-> chaptersData[i].content,
         isHtmlContent |-> JsBool(chaptersData[i].isHtmlContent \/ FALSE)]]
\* App.tsx lines 108-114: no isHtmlContent property
newChapters_r1(chaptersData) ==
    [i \in 1..Len(chaptersData) |->
        [title |-> chaptersData[i].title, content |-> chaptersData[i].content,
         isHtmlContent |-> "undefined"]]

InitApp ==
    /\ ModalMounted
    /\ pathSt = [pc |-> "off"]
    /\ exSt = [pc |-> "off"]
    /\ call = [pc |-> "app", fn |-> "app", chapters |-> <<>>, chapters_r1 |-> <<>>, log |-> <<>>]

\* a chapter is added by hand
handleAddChapter(t, content) ==
    /\ call.pc = "app"
    /\ Len(call.chapters) < MaxChapters
    /\ call' = [call EXCEPT
                  !.chapters = Append(@, newChapter(t, content)),
                  !.chapters_r1 = Append(@, newChapter_r1(t, content)),
                  !.log = Append(@, [via |-> "manual", received |-> FALSE])]
    /\ UNCHANGED <<pathSt, exSt, importVars>>

\* the chapters of an import are added
handleAddChaptersBatch(chaptersData) ==
    /\ call.pc = "app"
    /\ Len(call.chapters) + Len(chaptersData) <= MaxChapters
    /\ call' = [call EXCEPT
                  !.chapters = @ \o newChapters(chaptersData),
                  !.chapters_r1 = @ \o newChapters_r1(chaptersData),
                  !.log = @ \o [i \in 1..Len(chaptersData) |->
                                   [via |-> "batch", received |-> chaptersData[i].isHtmlContent]]]
    /\ UNCHANGED <<pathSt, exSt, importVars>>

NextApp ==
    \/ \E t \in {TitleA, UntitledChapter} : handleAddChapter(t, TypedContent)
    \/ \E chaptersData \in SeqsOf(BatchRecords, 1, 2) : handleAddChaptersBatch(chaptersData)

SpecApp == InitApp /\ [][NextApp]_vars

\* C16 for the handlers of App.tsx lines 432-466 alone: every record an
\* import produces has isHtmlContent true, a chapter added by hand is stored
\* with "false", a chapter of a batch with the value passed
C16_FlagKeptByHandlersAt432 ==
    /\ \A r \in ImportedRecords : r.isHtmlContent = TRUE
    /\ Len(call.chapters) = Len(call.log)
    /\ \A i \in 1..Len(call.log) :
          /\ call.log[i].via = "manual" => call.chapters[i].isHtmlContent = "false"
          /\ call.log[i].via = "batch"
                => call.chapters[i].isHtmlContent = JsBool(call.log[i].received)

\* C16: every ChapterRecord of an import has isHtmlContent = true, every
\* chapter added through handleAddChapter is stored with isHtmlContent =
\* false, and handleAddChaptersBatch (lines 450-466 and lines 107-114)
\* stores each chapter with the isHtmlContent value it received.
C16_FlagKeptByAllHandlers ==
    /\ C16_FlagKeptByHandlersAt432
    /\ Len(call.chapters_r1) = Len(call.log)
    /\ \A i \in 1..Len(call.log) :
          call.log[i].via = "batch"
             => call.chapters_r1[i].isHtmlContent = JsBool(call.log[i].received)

\* a typed chapter, then an import of a chapter and a placeholder
C16_WitnessHandlersAt432 ==
    /\ Len(call.chapters) = 3
    /\ call.log[1].via = "manual" /\ call.chapters[1].isHtmlContent = "false"
    /\ call.log[2].via = "batch" /\ call.chapters[2].isHtmlContent = "true"
    /\ call.chapters[2].content.els # <<>>
    /\ call.log[3].via = "batch" /\ call.chapters[3].isHtmlContent = "true"
    /\ call.chapters[3].content = NoContent

\* in the import, every record built, placeholders included, has the flag set
C16_ImportRecordsAreHtml ==
    \A n \in 1..Len(chaptersWithContent) : chaptersWithContent[n].isHtmlContent = TRUE

(***************************************************************************)
(* C17: two invocations of handleFileChange that overlap.  The locals of   *)
(* an invocation (lines 77-84, 90-160, 252) are kept per invocation in     *)
(* call.imp[p]; the state of the modal (title, error, infoMessage,         *)
(* isProcessingFile, the file input) and the chapter list behind           *)
(* onAddChaptersBatch are the one modal's.  Both handlers were created by  *)
(* a render in which the input was still enabled, so both closed over the  *)
(* state of that render (closure).  The variables pc and thrown follow the *)
(* invocation that ran last; call.calls names, for every call of           *)
(* onAddChaptersBatch, the invocation that made it.                        *)
(***************************************************************************)
Invocations == {1, 2}

NcxOpf == [dcTitle |-> "Book", spineToc |-> "ncx",
           items |-> <<Item("ncx", <<"nav", "toc.ncx">>, NcxType, FALSE)>> \o ChapterItems]
NcxEntry(label, f, a) ==
    [label |-> label, src |-> Src(f, a), inTocNav |-> FALSE, inRoleNav |-> FALSE, inList |-> FALSE]
AllFiles == {ContainerPath, OpfPath, NcxPath, NavPath, Ch1Path, Ch2Path, ImgPath}

\* the EPUB files chosen: [name, zip, unreadable, rootfile, opf, toc]
Book(name, z, u, toc) ==
    [name |-> name, zip |-> z, unreadable |-> u, rootfile |-> OpfPath, opf |-> NcxOpf, toc |-> toc]
Books ==
    { \* chapter 1 at its anchor, then chapter 2
      Book("one", AllFiles, {},
           << NcxEntry(TitleA, <<"..", "text", "ch1.xhtml">>, "a"),
              NcxEntry(LongTitle, <<"..", "text", "ch2.xhtml">>, "") >>),
      \* chapter 2, then chapter 1 whose file is missing; the image is missing
      Book("two", AllFiles \ {Ch1Path, ImgPath}, {},
           << NcxEntry(<<>>, <<"..", "text", "ch2.xhtml">>, ""),
              NcxEntry(TitleA, <<"..", "text", "ch1.xhtml">>, "") >>),
      \* no container.xml
      Book("three", AllFiles \ {ContainerPath}, {}, <<>>),
      \* an empty navMap
      Book("four", AllFiles, {}, <<>>),
      \* the second chapter file cannot be read
      Book("five", AllFiles, {Ch2Path},
           << NcxEntry(TitleA, <<"..", "text", "ch1.xhtml">>, ""),
              NcxEntry(TitleA, <<"..", "text", "ch2.xhtml">>, "") >>) }

NoBook == Book("", {}, {}, <<>>)
FreshLocals ==
    [pc |-> "idle", book |-> NoBook, tocPath |-> NoPath, tocMediaType |-> "",
     tocItemsFound |-> FALSE, itemsToProcess |-> <<>>, chaptersWithContent |-> <<>>, idx |-> 0,
     chapterSpecificContent |-> NoContent, thrown |-> NoError]

InitOverlap ==
    /\ ModalMounted
    /\ pathSt = [pc |-> "off"]
    /\ exSt = [pc |-> "off"]
    /\ call = [pc |-> "imports", fn |-> "handleFileChange",
               imp |-> [p \in Invocations |-> FreshLocals], calls |-> <<>>]

\* the locals of invocation p become l; a call of onAddChaptersBatch made in
\* this step is attributed to p
SetLocals(p, l) ==
    call' = [call EXCEPT !.imp[p] = l,
                         !.calls = IF Len(batches') > Len(batches) THEN Append(@, p) ELSE @]

UnusedByOverlap ==
    <<file, zip, unreadable, rootfilePath, opfDoc, tocPath, tocMediaType, tocItemsFound, tocDoc,
      itemsToProcess, chaptersWithContent, idx, chapterSpecificContent, processedCount, closure,
      closeCalls, pathSt, exSt>>

\* lines 252-334 for invocation p: the loop resumed at item i
LoopOf(p, l, i, chapters) ==
    LET adv == advanceLoop(i, l.itemsToProcess, chapters, l.book.zip)
        m == [l EXCEPT !.chaptersWithContent = adv.chapters, !.idx = adv.idx]
    IN IF adv.idx <= Len(l.itemsToProcess)
       THEN /\ Continue("chapter", infoMessage)
            /\ SetLocals(p, [m EXCEPT !.pc = "chapter"])
       ELSE /\ Finish(adv.chapters, l.tocPath, l.tocMediaType, l.tocItemsFound)
            /\ SetLocals(p, [m EXCEPT !.pc = "done"])

\* invocation p throws e: lines 366-375
ThrowIn(p, l, e) ==
    /\ Catch(e)
    /\ SetLocals(p, [l EXCEPT !.pc = "done", !.thrown = e])

\* lines 66-89: invocation p starts with an EPUB file
StartImport(p, b) ==
    /\ call.imp[p].pc = "idle"
    /\ error' = NoError
    /\ infoMessage' = InfoParsingEpub
    /\ isProcessingFile' = TRUE
    /\ fileInputValue' = b.name
    /\ pc' = "load"
    /\ call' = [call EXCEPT !.imp[p] = [FreshLocals EXCEPT !.pc = "load", !.book = b]]
    /\ UNCHANGED <<title, thrown, batches, timerArmed, UnusedByOverlap>>

\* lines 89-332: invocation p runs from the await it is suspended at to its
\* next await or to its end
ResumeImport(p) ==
    LET l == call.imp[p]
        b == l.book
    IN /\ l.pc \notin {"idle", "done"}
       /\ CASE l.pc = "load" ->
                 /\ IF ContainerPath \notin b.zip
                    THEN ThrowIn(p, l, ThrownContainer)
                    ELSE Continue("container", infoMessage) /\ SetLocals(p, [l EXCEPT !.pc = "container"])
                 /\ UNCHANGED title
            [] l.pc = "container" ->
                 /\ IF b.rootfile \notin b.zip
                    THEN ThrowIn(p, l, ThrownOpf(b.rootfile))
                    ELSE Continue("opf", InfoParsingOpf) /\ SetLocals(p, [l EXCEPT !.pc = "opf"])
                 /\ UNCHANGED title
            [] l.pc = "opf" ->
                 LET ref == TocRef(b.rootfile, b.opf)
                     m == [l EXCEPT !.tocPath = ref.tocPath, !.tocMediaType = ref.tocMediaType]
                 IN /\ title' = IF closure.title = "" \/ closure.title = b.name
                                THEN (IF b.opf.dcTitle # "" THEN b.opf.dcTitle ELSE b.name)
                                ELSE title
                    /\ IF ref.tocPath \notin b.zip
                       THEN ThrowIn(p, m, ThrownToc(ref.tocPath))
                       ELSE /\ Continue("toc", InfoParsingToc(ref.tocPath))
                            /\ SetLocals(p, [m EXCEPT !.pc = "toc"])
            [] l.pc = "toc" ->
                 LET items == parseToc(l.tocPath, b.toc, l.tocMediaType)
                 IN /\ LoopOf(p, [l EXCEPT !.itemsToProcess = items,
                                           !.tocItemsFound = (Len(items) > 0)],
                              1, l.chaptersWithContent)
                    /\ UNCHANGED title
            [] l.pc = "chapter" ->
                 LET item == l.itemsToProcess[l.idx]
                 IN /\ IF item.filePath \in b.unreadable
                       THEN ThrowIn(p, l, ThrownRead(item.filePath))
                       ELSE /\ Continue("embed", infoMessage)
                            /\ SetLocals(p, [l EXCEPT
                                  !.pc = "embed",
                                  !.chapterSpecificContent =
                                      extractSection(ChapterDoc(item.filePath), item,
                                                     l.itemsToProcess)])
                    /\ UNCHANGED title
            [] l.pc = "embed" ->
                 LET item == l.itemsToProcess[l.idx]
                     contentWithEmbeddedImages ==
                         processHtmlStringAndEmbedImages(l.chapterSpecificContent, item.filePath,
                                                         b.zip, b.unreadable, b.rootfile,
                                                         b.opf.items)
                 IN /\ LoopOf(p, l, l.idx + 1,
                              Append(l.chaptersWithContent,
                                     ChapterRecord(truncateTitle(item.title),
                                                   contentWithEmbeddedImages)))
                    /\ UNCHANGED title
       /\ UNCHANGED UnusedByOverlap

NextOverlap ==
    \/ \E p \in Invocations : \E b \in Books : StartImport(p, b)
    \/ \E p \in Invocations : ResumeImport(p)

SpecOverlap == InitOverlap /\ [][NextOverlap]_vars

\* what each book yields when it is imported alone: the titles, the kinds
\* and the image sources of its chapters, in the order of its own TOC
ExpectedTitles(name) ==
    CASE name = "one" -> <<TitleA, Emitted(LongTitle)>>
      [] name = "two" -> <<UntitledChapter, TitleA>>
      [] OTHER -> <<>>
ExpectedKinds(name) ==
    CASE name = "one" -> <<"html", "html">>
      [] name = "two" -> <<"html", "file-not-found">>
      [] OTHER -> <<>>
ExpectedHeads(name) ==
    CASE name = "one" -> <<"H2", "H1">>
      [] name = "two" -> <<"H1", "none">>
      [] OTHER -> <<>>
ExpectedImgKind(name) == IF name = "one" THEN "data" ELSE "ref"
\* the books whose import ends with a call of onAddChaptersBatch
BooksWithChapters == {"one", "two"}

Running(p) == call.imp[p].pc \notin {"idle", "done"}
CallsOf(p) == {k \in 1..Len(call.calls) : call.calls[k] = p}

\* the calls of onAddChaptersBatch of two overlapping invocations: each
\* invocation calls at most once, exactly when its own import ended with
\* chapters, and passes the chapters of its own archive in its own TOC order
C17_EachBatchIsItsOwn ==
    /\ Len(call.calls) = Len(batches)
    /\ \A p \in Invocations :
          /\ Cardinality(CallsOf(p)) <= 1
          /\ CallsOf(p) # {} => call.imp[p].pc = "done"
          /\ call.imp[p].pc = "done"
                => (CallsOf(p) # {} <=> call.imp[p].book.name \in BooksWithChapters)
    /\ \A k \in 1..Len(batches) :
          LET l == call.imp[call.calls[k]]
              name == l.book.name
          IN /\ batches[k] = l.chaptersWithContent
             /\ Len(batches[k]) = Len(ExpectedTitles(name))
             /\ \A n \in 1..Len(batches[k]) :
                   /\ batches[k][n].title = ExpectedTitles(name)[n]
                   /\ batches[k][n].kind = ExpectedKinds(name)[n]
                   /\ batches[k][n].kind = "html"
                         => batches[k][n].content.els[1].tag = ExpectedHeads(name)[n]
                   /\ \A src \in SrcsOf(batches[k][n]) :
                         src.kind # "none" => src.kind = ExpectedImgKind(name)

\* both invocations passed their chapters on, the one started second first
C17_WitnessBothCalled ==
    /\ Len(batches) = 2
    /\ call.calls = <<2, 1>>
    /\ call.imp[1].book.name = "one"
    /\ call.imp[2].book.name = "two"
    /\ batches[1][2].kind = "file-not-found"
    /\ batches[2][2].title = Emitted(LongTitle)

SpecFair ==
    /\ Init
    /\ [][Next]_vars
    /\ WF_vars(LoadZip)
    /\ WF_vars(ReadContainer)
    /\ WF_vars(ReadOpf)
    /\ WF_vars(ReadToc)
    /\ WF_vars(ReadChapter)
    /\ WF_vars(EmbedImages)
    /\ WF_vars(TimerFires)

\* handleFileChange is suspended at one of its awaits
Suspended == pc \in {"load", "container", "opf", "toc", "chapter", "embed"}
Unlocked == isProcessingFile = FALSE /\ fileInputValue = ""

\* C18: an import that has started always ends, and on every path (chapters
\* added, empty result, structural error, unexpected exception) it ends with
\* isProcessingFile false and the file input cleared; the modal is in the
\* processing state exactly while the handler is suspended.
C18_ImportAlwaysEnds ==
    /\ [](isProcessingFile <=> Suspended)
    /\ [](pc \in {"done", "rejected"} => Unlocked)
    /\ (Suspended ~> (pc = "done" /\ Unlocked))

\* the four ways an import ends
EndedWithChapters == pc = "done" /\ thrown = NoError /\ Len(batches) = 1
EndedStructural == pc = "done" /\ thrown.msg \in StructuralErrors
EndedUnexpected ==
    pc = "done" /\ thrown.msg \in {"not-a-zip-archive", "archive-entry-unreadable"}

\* an import that met an unreadable chapter file after one chapter has ended
\* unlocked
C18_Witness ==
    /\ EndedUnexpected
    /\ thrown = ThrownRead(Ch1Path)
    /\ Len(chaptersWithContent) = 1
    /\ Unlocked

\* every import that has ended has ended in one of the four ways
C18_FourEndings ==
    pc = "done" => (EndedWithChapters \/ EndedEmpty \/ EndedStructural \/ EndedUnexpected)

(***************************************************************************)
(* C19: what is thrown inside the try block of lines 86-365.               *)
(***************************************************************************)
\* the Errors the try block can raise
ThrownKinds == StructuralErrors \cup {"not-a-zip-archive", "archive-entry-unreadable"}

\* the handler has gone past the stage without an Error
PastLoad == thrown = NoError /\ pc \in {"container", "opf", "toc", "chapter", "embed", "done"}
PastContainer == thrown = NoError /\ pc \in {"opf", "toc", "chapter", "embed", "done"}
PastOpf == thrown = NoError /\ pc \in {"toc", "chapter", "embed", "done"}
PastToc == thrown = NoError /\ pc \in {"chapter", "embed", "done"} /\ tocPath # NoPath

ShownAndNothingAdded ==
    /\ pc = "done"
    /\ error = ErrProcessing(thrown)
    /\ error.msg = "epub-processing-error" /\ error.cause = thrown.msg
    /\ infoMessage = NoInfo
    /\ batches = <<>>
    /\ ~timerArmed

\* an img of a pushed chapter named an entry of a supported type whose bytes
\* the archive could not deliver: imageFile.async('base64') was rejected
ImageReadRejected ==
    /\ ImgPath \in unreadable
    /\ manifestByHref(rootfilePath, opfDoc.items, ImgPath) # NoEntry
    /\ manifestByHref(rootfilePath, opfDoc.items, ImgPath).mediaType \in SUPPORTED_IMAGE_TYPES
    /\ \E i \in 1..Len(chaptersWithContent) :
          /\ chaptersWithContent[i].kind = "html"
          /\ \E j \in 1..Len(chaptersWithContent[i].content.els) :
                chaptersWithContent[i].content.els[j].src = ImgRef(<<"..", "img", "x.png">>)

\* C19 (as amended): every Error that leaves the try block (bytes that are no
\* zip archive, a structural absence, a rejected read of the container, the
\* package document, the TOC file or a chapter file) reaches the catch of
\* line 366: the handler ends, the error shown is the processing-error
\* message built from it, the info message is cleared and no chapter is
\* added; no stage is passed without an Error when its cause is met.
C19_ErrorsOfTheTryBlockCaught ==
    /\ thrown # NoError => thrown.msg \in ThrownKinds /\ ShownAndNothingAdded
    /\ PastLoad => file.isZip
    /\ PastContainer => ContainerPath \in zip /\ ContainerPath \notin unreadable
    /\ PastOpf => rootfilePath \in zip /\ rootfilePath \notin unreadable
    /\ PastToc => tocPath \in zip /\ tocPath \notin unreadable
    /\ thrown.msg = "not-a-zip-archive" => ~file.isZip
    /\ thrown.msg = "archive-entry-unreadable" =>
          thrown.arg \in unreadable /\ thrown.arg \in zip /\ thrown.arg # ImgPath
    /\ (pc = "done" /\ thrown = NoError) => error.msg # "epub-processing-error"

\* C19 (as stated): any error thrown after processing has started, the
\* rejected read of an image included, is caught at the top level and no
\* chapter is added.
C19_EveryErrorCaughtAtTopLevel ==
    /\ C19_ErrorsOfTheTryBlockCaught
    /\ ImageReadRejected => thrown = ThrownRead(ImgPath) /\ ShownAndNothingAdded

\* the package document is in the archive but cannot be read
C19_Witness ==
    /\ thrown = ThrownRead(OpfPath)
    /\ ShownAndNothingAdded
    /\ rootfilePath = OpfPath

\* the bytes are no zip archive
C19_WitnessBadZip == thrown = ThrownBadZip /\ ShownAndNothingAdded /\ ~file.isZip

\* a chapter file cannot be read after an earlier chapter was collected
C19_WitnessMidLoop ==
    /\ thrown = ThrownRead(Ch2Path)
    /\ ShownAndNothingAdded
    /\ Len(chaptersWithContent) >= 1

\* the import went on after the rejected read of an image
C19_WitnessImageReadRejected ==
    ImageReadRejected /\ pc = "done" /\ thrown = NoError /\ Len(batches) = 1

(***************************************************************************)
(* C20: harness of the TOC reference.  A package document is drawn: a      *)
(* manifest whose items may carry the nav property, with any of the media  *)
(* types, with or without id and href, and a spine without toc attribute   *)
(* or whose toc attribute names the NCX ("x"), an item that may be of      *)
(* another media type ("m") or no item ("q"); lines 129-152 run on it.     *)
(***************************************************************************)
MaxNavItems == 3

NavDocHref == <<"nav", "nav.xhtml">>
NcxDocHref == <<"nav", "toc.ncx">>

TocRefItemsIn ==
    {Item(i, NavDocHref, m, TRUE) : i \in {"n", "m"}, m \in {XhtmlType, HtmlType, "image/png"}}
        \cup {Item("", NavDocHref, XhtmlType, TRUE), Item("n", NoPath, XhtmlType, TRUE),
              Item("n", NavDocHref, XhtmlType, FALSE), Item("m", NavDocHref, "image/png", FALSE),
              Item("x", NcxDocHref, NcxType, FALSE)}
TocRefOpfs ==
    {[dcTitle |-> "Book", spineToc |-> t, items |-> m] :
        t \in {"", "x", "m", "q"}, m \in SeqsOf(TocRefItemsIn, 1, MaxNavItems)}

InitTocRef ==
    /\ ModalMounted
    /\ pathSt = [pc |-> "off"]
    /\ exSt = [pc |-> "off"]
    /\ call \in {[pc |-> "call", fn |-> "tocref", opf |-> o, ref |-> NoTocRef] : o \in TocRefOpfs}

\* lines 129-152 run on the package document
DetermineTocRef ==
    /\ call.pc = "call"
    /\ call' = [call EXCEPT !.pc = "returned", !.ref = TocRef(OpfPath, call.opf)]
    /\ UNCHANGED <<pathSt, exSt, importVars>>

NextTocRef == DetermineTocRef

SpecTocRef == InitTocRef /\ [][NextTocRef]_vars

\* the positions of the manifest items the claim speaks of
NavDocItems(items) ==
    {i \in 1..Len(items) : items[i].nav /\ items[i].mediaType \in {XhtmlType, HtmlType}}
RefTo(item) == [tocPath |-> getAbsolutePath(OpfPath, item.href), tocMediaType |-> item.mediaType]

\* C20: whenever the manifest holds an item with the nav property and media
\* type application/xhtml+xml or text/html, the TOC reference is such an item,
\* whatever other items (other nav items of another media type or with
\* missing attributes, listed earlier), spine@toc or NCX items exist.
C20_NavItemAlwaysChosen ==
    (call.pc = "returned" /\ NavDocItems(call.opf.items) # {}) =>
        \E i \in NavDocItems(call.opf.items) : call.ref = RefTo(call.opf.items[i])

\* what lines 129-136 do: only the first item whose properties include nav is
\* looked at, and only its id is used; the entry stored last under that id
\* is taken when its media type is a navigation media type, and then
\* spine@toc and the NCX items are not consulted
FirstNav(items) == items[MinOf({i \in 1..Len(items) : items[i].nav})]
FirstNavUsable(items) ==
    /\ \E i \in 1..Len(items) : items[i].nav
    /\ FirstNav(items).id # ""
    /\ manifestById(OpfPath, items, FirstNav(items).id).mediaType \in {XhtmlType, HtmlType}
C20_FirstNavItemDecides ==
    call.pc = "returned" =>
        IF FirstNavUsable(call.opf.items)
        THEN \E i \in StoredItems(call.opf.items) :
                /\ call.opf.items[i].id = FirstNav(call.opf.items).id
                /\ call.ref = RefTo(call.opf.items[i])
        ELSE call.ref = SpineTocRef(OpfPath, call.opf)

\* the first nav item is the navigation document and is chosen although the
\* spine names an NCX
C20_WitnessFirstNavChosen ==
    /\ call.pc = "returned"
    /\ call.opf.spineToc = "x"
    /\ call.opf.items = <<Item("x", NcxDocHref, NcxType, FALSE), Item("n", NavDocHref, XhtmlType, TRUE)>>
    /\ call.ref = RefTo(Item("n", NavDocHref, XhtmlType, TRUE))

\* a nav item of another media type listed before the navigation document:
\* the NCX named by the spine is taken
C20_WitnessLaterNavIgnored ==
    /\ call.pc = "returned"
    /\ call.opf.spineToc = "x"
    /\ call.opf.items = <<Item("m", NavDocHref, "image/png", TRUE),
                          Item("n", NavDocHref, XhtmlType, TRUE),
                          Item("x", NcxDocHref, NcxType, FALSE)>>
    /\ call.ref = RefTo(Item("x", NcxDocHref, NcxType, FALSE))

(***************************************************************************)
(* C21: spine@toc and the NCX of last resort, on package documents none of *)
(* whose manifest items carries the nav property.                          *)
(***************************************************************************)
NoNavProperty(items) == \A i \in 1..Len(items) : ~items[i].nav
NcxItems(items) == {i \in StoredItems(items) : items[i].mediaType = NcxType}
SpineEntry(opf) == manifestById(OpfPath, opf.items, opf.spineToc)
SpineTocAccepted(opf) ==
    /\ opf.spineToc # ""
    /\ SpineEntry(opf) # NoEntry
    /\ SpineEntry(opf).mediaType \in {NcxType, XhtmlType, HtmlType}
EntryRef(e) == [tocPath |-> e.href, tocMediaType |-> e.mediaType]

\* C21: with no nav item, the item named by spine@toc is used if its media
\* type is NCX or XHTML/HTML; in every other case (no spine@toc, spine@toc
\* naming no manifest item or an item of another media type) an NCX item of
\* the manifest is taken; the reference is null only when no rule matches.
C21_SpineTocThenAnyNcx ==
    (call.pc = "returned" /\ NoNavProperty(call.opf.items)) =>
        IF SpineTocAccepted(call.opf) THEN call.ref = EntryRef(SpineEntry(call.opf))
        ELSE IF NcxItems(call.opf.items) # {}
             THEN \E i \in NcxItems(call.opf.items) : call.ref = RefTo(call.opf.items[i])
             ELSE call.ref = NoTocRef

\* what lines 138-152 do: the NCX of last resort is looked for only when
\* spine@toc is absent or names no manifest entry; when it names an entry of
\* another media type no TOC is identified
C21_NcxOnlyWithoutSpineEntry ==
    (call.pc = "returned" /\ NoNavProperty(call.opf.items)) =>
        IF SpineTocAccepted(call.opf) THEN call.ref = EntryRef(SpineEntry(call.opf))
        ELSE IF call.opf.spineToc # "" /\ SpineEntry(call.opf) # NoEntry THEN call.ref = NoTocRef
        ELSE IF NcxItems(call.opf.items) # {}
             THEN call.ref = RefTo(call.opf.items[MinOf(NcxItems(call.opf.items))])
             ELSE call.ref = NoTocRef

\* spine@toc names an image, the manifest holds an NCX, and no TOC is
\* identified
C21_WitnessNcxNotTaken ==
    /\ call.pc = "returned"
    /\ call.opf.spineToc = "m"
    /\ call.opf.items = <<Item("m", NavDocHref, "image/png", FALSE),
                          Item("x", NcxDocHref, NcxType, FALSE)>>
    /\ call.ref = NoTocRef

\* spine@toc names no manifest item and the NCX of the manifest is taken
C21_WitnessLastResort ==
    /\ call.pc = "returned"
    /\ call.opf.spineToc = "q"
    /\ call.opf.items = <<Item("m", NavDocHref, "image/png", FALSE),
                          Item("x", NcxDocHref, NcxType, FALSE)>>
    /\ call.ref = RefTo(Item("x", NcxDocHref, NcxType, FALSE))

(***************************************************************************)
(* C22: harness of the link selectors of a navigation document.  A         *)
(* document is drawn whose links lie, each, in any combination of a        *)
(* nav[epub:type='toc'], a nav[role~='doc-toc'] and an ol/ul of the body;  *)
(* the links are selected as lines 234-237 and as lines 816-834 select     *)
(* them.                                                                   *)
(***************************************************************************)
MaxNavLinks == 3

\* lines 816-834 of the second revision: three selectors, one after the
\* other
navLinks_r2(doc) ==
    LET sel1 == SelectSeq(doc, LAMBDA e : e.inTocNav)
        sel2 == SelectSeq(doc, LAMBDA e : e.inRoleNav)
        sel3 == SelectSeq(doc, LAMBDA e : e.inList)
    IN IF Len(sel1) # 0 THEN sel1
       ELSE IF Len(sel2) # 0 THEN sel2
       ELSE sel3

NavLinksIn ==
    {[label |-> TitleA, src |-> r, inTocNav |-> a, inRoleNav |-> b, inList |-> c] :
        r \in {Src(<<"..", "text", "ch1.xhtml">>, "a"), Src(<<"..", "text", "ch2.xhtml">>, "")},
        a \in BOOLEAN, b \in BOOLEAN, c \in BOOLEAN}
NavDocs == SeqsOf(NavLinksIn, 0, MaxNavLinks)

InitNav ==
    /\ ModalMounted
    /\ pathSt = [pc |-> "off"]
    /\ exSt = [pc |-> "off"]
    /\ call \in {[pc |-> "call", fn |-> "navLinks", doc |-> d, links |-> <<>>, links2 |-> <<>>] :
                    d \in NavDocs}

\* the links of the document are selected
SelectNavLinks ==
    /\ call.pc = "call"
    /\ call' = [call EXCEPT !.pc = "returned",
                            !.links = navLinks(call.doc, XhtmlType),
                            !.links2 = navLinks_r2(call.doc)]
    /\ UNCHANGED <<pathSt, exSt, importVars>>

NextNav == SelectNavLinks

SpecNav == InitNav /\ [][NextNav]_vars

Matches1(doc) == \E i \in 1..Len(doc) : doc[i].inTocNav
Matches2(doc) == \E i \in 1..Len(doc) : doc[i].inRoleNav
\* every selected link is matched by the selector
AllBy1(links) == \A i \in 1..Len(links) : links[i].inTocNav
AllBy2(links) == \A i \in 1..Len(links) : links[i].inRoleNav
AllBy3(links) == \A i \in 1..Len(links) : links[i].inList
Cascade(doc, links) ==
    /\ Matches1(doc) => AllBy1(links)
    /\ (~Matches1(doc) /\ Matches2(doc)) => AllBy2(links)
    /\ (~Matches1(doc) /\ ~Matches2(doc)) => AllBy3(links)

\* C22: the selectors are a cascade and the first that yields a match is the
\* only one used; when selector (1) matches, links matched only by selector
\* (2) or (3) produce no TOC entry.  For the selection of lines 234-237 and
\* that of lines 816-834.
C22_FirstMatchingSelectorOnly ==
    call.pc = "returned" => Cascade(call.doc, call.links) /\ Cascade(call.doc, call.links2)

\* lines 816-834 are the cascade; lines 234-237 try selectors (1) and (2) as
\* one selector list and selector (3) only when both yield nothing
C22_CascadeAt816UnionAt234 ==
    call.pc = "returned" =>
        /\ Cascade(call.doc, call.links2)
        /\ call.links2 = SelectSeq(call.doc, LAMBDA e :
                IF Matches1(call.doc) THEN e.inTocNav
                ELSE IF Matches2(call.doc) THEN e.inRoleNav ELSE e.inList)
        /\ (Matches1(call.doc) \/ Matches2(call.doc)) =>
                call.links = SelectSeq(call.doc, LAMBDA e : e.inTocNav \/ e.inRoleNav)
        /\ (~Matches1(call.doc) /\ ~Matches2(call.doc)) =>
                call.links = SelectSeq(call.doc, LAMBDA e : e.inList)

\* a link of the toc nav and a link of a doc-toc nav only: lines 234-237
\* select both, lines 816-834 the first
C22_WitnessBothNavs ==
    /\ call.pc = "returned"
    /\ Len(call.doc) = 2
    /\ call.doc[1].inTocNav /\ ~call.doc[1].inRoleNav
    /\ call.doc[2].inRoleNav /\ ~call.doc[2].inTocNav
    /\ call.links = call.doc
    /\ call.links2 = <<call.doc[1]>>

(***************************************************************************)
(* C23: a TOC entry whose anchor is not in its file.                       *)
(***************************************************************************)
\* the item names a file of the archive and an id no element of it has
AnchorMissing(item) ==
    /\ HasTitleAndPath(item)
    /\ item.filePath \in zip
    /\ item.anchor # NULL
    /\ getElementById(ChapterDoc(item.filePath), item.anchor) = 0

\* the markup is that of the whole file, img src attributes apart
WholeFileOf(content, path) ==
    /\ content.whole
    /\ Len(content.els) = Len(ChapterDoc(path))
    /\ \A j \in 1..Len(content.els) :
          /\ content.els[j].tag = ChapterDoc(path)[j].tag
          /\ content.els[j].id = ChapterDoc(path)[j].id

\* C23: when a TOC entry has an anchor and its file holds no element with
\* that id, the content extracted is the whole file, and the chapter is
\* produced like any other: a record with that content, no placeholder, no
\* error, at the place of the entry.
C23_MissingAnchorYieldsWholeFile ==
    /\ (pc = "embed" /\ AnchorMissing(itemsToProcess[idx])) =>
          /\ chapterSpecificContent = [whole |-> TRUE,
                                       els |-> ChapterDoc(itemsToProcess[idx].filePath)]
          /\ thrown = NoError /\ error = NoError
    /\ Assembled =>
          \A n \in 1..Len(Resolvable) :
              AnchorMissing(Resolvable[n]) =>
                  /\ chaptersWithContent[n].kind = "html"
                  /\ WholeFileOf(chaptersWithContent[n].content, Resolvable[n].filePath)
                  /\ chaptersWithContent[n].title = Emitted(Resolvable[n].title)
                  /\ batches = <<chaptersWithContent>>
                  /\ error = NoError

\* an entry with a missing anchor before an entry of another
\* file: both chapters are added, the first with the whole file
C23_Witness ==
    /\ Assembled
    /\ Len(itemsToProcess) = 2
    /\ AnchorMissing(itemsToProcess[1])
    /\ itemsToProcess[1].anchor = "zz"
    /\ itemsToProcess[2].filePath = Ch1Path
    /\ Len(batches) = 1 /\ Len(batches[1]) = 2
    /\ batches[1][1].content.whole
    /\ Len(batches[1][1].content.els) = Len(ChapterDoc(Ch2Path))

\* for every chapter file: the content extracted for a missing anchor is the
\* whole file
C23_WholeFileForEveryDocument ==
    (exSt.pc = "returned" /\ ExItem.anchor # NULL /\ ExAnchorAt = 0) =>
        exSt.out = [whole |-> TRUE, els |-> exSt.doc]

(***************************************************************************)
(* C24: the base of each path.  In the archives of the import model the    *)
(* package document (OEBPS/), the TOC document (OEBPS/nav/) and the        *)
(* chapter files (OEBPS/text/) lie in three directories.                   *)
(***************************************************************************)
RelCh1 == <<"..", "text", "ch1.xhtml">>
RelCh2 == <<"..", "text", "ch2.xhtml">>
RelImg == <<"..", "img", "x.png">>

\* C24: the path of a manifest entry is its href resolved against the
\* package document's path (not the archive root); the file path of a TOC
\* item is the file part of its src/href resolved against the TOC document's
\* path (not the package document's); an img src is resolved against the
\* path of the chapter file that holds it.
C24_PathBasesKeptApart ==
    /\ TruthyPath(tocPath) =>
          \E i \in StoredItems(opfDoc.items) :
              /\ tocPath = getAbsolutePath(rootfilePath, opfDoc.items[i].href)
              /\ tocPath = Pop(rootfilePath) \o opfDoc.items[i].href
              /\ tocPath # opfDoc.items[i].href
    /\ Len(itemsToProcess) = Len(MatchedEntries)
    /\ \A i \in 1..Len(itemsToProcess) :
          LET filePart == MatchedEntries[i].src.file
              filePath == itemsToProcess[i].filePath
          IN /\ filePath = (IF filePart = EmptyStr THEN NoPath ELSE getAbsolutePath(tocPath, filePart))
             /\ filePart = RelCh1 =>
                    filePath = Ch1Path /\ filePath # getAbsolutePath(rootfilePath, filePart)
             /\ filePart = RelCh2 =>
                    filePath = Ch2Path /\ filePath # getAbsolutePath(rootfilePath, filePart)
    /\ \A n \in 1..Len(chaptersWithContent) : \A src \in SrcsOf(chaptersWithContent[n]) :
          src.kind = "data" =>
              /\ src.path \in {getAbsolutePath(f, RelImg) : f \in {Ch1Path, Ch2Path}}
              /\ src.path = ImgPath
              /\ src.path # getAbsolutePath(rootfilePath, RelImg)
              /\ manifestByHref(rootfilePath, opfDoc.items, src.path).href
                    = Pop(rootfilePath) \o <<"img", "x.png">>

\* an import whose three bases were all used: TOC found through the
\* manifest, chapter found through the TOC, image found through the chapter
C24_Witness ==
    /\ Assembled
    /\ rootfilePath = OpfPath
    /\ tocPath = NcxPath
    /\ Len(itemsToProcess) = 1
    /\ MatchedEntries[1].src.file = RelCh2
    /\ itemsToProcess[1].filePath = Ch2Path
    /\ Len(batches) = 1
    /\ [kind |-> "data", path |-> ImgPath, mediaType |-> "image/png"] \in SrcsOf(batches[1][1])

(***************************************************************************)
(* C25: the timer set after a successful import.                           *)
(***************************************************************************)
\* chapters were added, processing has finished, the success message is
\* shown, no error is set, and the timer has fired
SuccessShownAndDelayElapsed ==
    /\ pc = "done"
    /\ Len(batches) = 1
    /\ isProcessingFile = FALSE
    /\ infoMessage.msg = "chapters-extracted-and-added"
    /\ error = NoError
    /\ closure.error = NoError
    /\ timerArmed = FALSE

\* C25: after an import that added chapters while no error message is set,
\* once the delay has elapsed, with processing finished, the success message
\* shown and no error set, onClose has been invoked; onClose is never
\* invoked automatically when an error message is set.
C25_ClosesAfterSuccessfulImport ==
    /\ SuccessShownAndDelayElapsed => closeCalls = 1
    /\ error # NoError => closeCalls = 0

\* what lines 358-362 do for the import of a modal just opened: the callback
\* tests the isProcessingFile, infoMessage and error of the render in which
\* the file was chosen, where infoMessage is null, and onClose is not invoked
C25_NotClosedByFirstImport ==
    /\ closure.infoMessage = NoInfo
    /\ closeCalls = 0

\* the timer of a successful import has fired and the modal is still open
C25_WitnessStillOpen == SuccessShownAndDelayElapsed /\ closeCalls = 0

(***************************************************************************)
(* C26: the first element of an extracted section.                         *)
(***************************************************************************)
\* C26: when the anchor element is found, the extracted section begins with
\* the anchor element itself, also when it is a heading (or carries an id
\* that is some item's anchor), and is not empty; the content is never the
\* whole-file fallback of line 307.
C26_SectionBeginsWithAnchorElement ==
    (exSt.pc = "returned" /\ ExAnchorAt # 0) =>
        /\ exSt.out.whole = FALSE
        /\ Len(exSt.out.els) >= 1
        /\ exSt.out.els[1] = exSt.doc[ExAnchorAt]
        /\ exSt.out.els[1].id = ExItem.anchor

\* the anchor element is a heading and the next sibling is a heading too:
\* the section is the anchor element alone
C26_Witness ==
    /\ exSt.pc = "returned"
    /\ ExAnchorAt = 2
    /\ Len(exSt.doc) = 3
    /\ exSt.doc[2].tag = "H2"
    /\ exSt.doc[3].tag = "H2"
    /\ exSt.out = [whole |-> FALSE, els |-> <<exSt.doc[2]>>]

(***************************************************************************)
(* C27: one TOC resource per import.                                       *)
(***************************************************************************)
\* the manifest and the archive hold an NCX that could be parsed
UsableNcx ==
    /\ NcxPath \in zip /\ NcxPath \notin unreadable
    /\ \E i \in StoredItems(opfDoc.items) :
          /\ opfDoc.items[i].mediaType = NcxType
          /\ getAbsolutePath(rootfilePath, opfDoc.items[i].href) = NcxPath

\* the import ended with the empty-result failure
EmptyResultFailure ==
    /\ pc = "done" /\ thrown = NoError
    /\ batches = <<>> /\ chaptersWithContent = <<>>
    /\ error \in {ErrNoToc, ErrNoEntries(tocPath), ErrNoContent}
    /\ infoMessage = NoInfo

\* C27: the TOC resource is chosen once, from the package document, and is
\* not changed afterwards; when the navigation document chosen yields no
\* entry, or none with a file path, the import ends with the empty-result
\* failure, also when the manifest holds a usable NCX.
C27_TocSourceChosenOnce ==
    /\ [](TruthyPath(tocPath) =>
            /\ tocPath = TocRef(rootfilePath, opfDoc).tocPath
            /\ tocMediaType = TocRef(rootfilePath, opfDoc).tocMediaType)
    /\ []((Assembled /\ tocMediaType \in {XhtmlType, HtmlType} /\ Resolvable = <<>>) =>
            /\ tocPath = NavPath
            /\ EmptyResultFailure
            /\ error \in {ErrNoEntries(NavPath), ErrNoContent})
    /\ [][TruthyPath(tocPath) => (tocPath' = tocPath /\ tocMediaType' = tocMediaType)]_vars

\* the navigation document matched no link, the NCX was there, and the import
\* failed
C27_Witness ==
    /\ Assembled
    /\ tocPath = NavPath
    /\ UsableNcx
    /\ opfDoc.spineToc = "ncx"
    /\ itemsToProcess = <<>>
    /\ EmptyResultFailure
    /\ error = ErrNoEntries(NavPath)

\* the navigation document held a link without href only
C27_WitnessNoFilePath ==
    /\ Assembled
    /\ tocPath = NavPath
    /\ UsableNcx
    /\ Len(itemsToProcess) = 1
    /\ itemsToProcess[1].filePath = NoPath
    /\ EmptyResultFailure
    /\ error = ErrNoContent

(***************************************************************************)
(* C28: the processing state while imports are in flight.                  *)
(***************************************************************************)
\* submission (line 30) and closing (lines 389-392) are refused
SubmitAndCloseDisabled == isProcessingFile = TRUE

C28_LockedDuringSingleImport == Suspended => SubmitAndCloseDisabled

\* of two overlapping imports the processing state is held until the first
\* of them ends, and released when the last has ended
C28_LockedUntilFirstEnds ==
    /\ (\A p \in Invocations : call.imp[p].pc # "done") =>
          ((\E p \in Invocations : Running(p)) => SubmitAndCloseDisabled)
    /\ (\A p \in Invocations : ~Running(p)) => ~SubmitAndCloseDisabled

\* one import has ended, the other is still suspended, and the modal is
\* unlocked
C28_WitnessUnlockedWhileRunning ==
    /\ call.imp[1].pc = "opf"
    /\ call.imp[2].pc = "done"
    /\ isProcessingFile = FALSE
    /\ fileInputValue = ""

(***************************************************************************)
(* C29, C30: the chat handlers of the application (App.tsx).  The state of *)
(* App is kept in call: chapters, a list of [id, chatInstance, messages]   *)
(* (chatInstance 0 is null, otherwise the number of the initialisation     *)
(* that created the session); activeChapterId (0 is null); isLoading;      *)
(* isInitializingChat; error.  A handler reads the chapters and            *)
(* activeChapterId of the render it was created in and writes through      *)
(* setChapters(prev => ...), which sees the current list.  A handler        *)
(* invoked by a user event belongs to the current render; a handler called *)
(* by another handler belongs to the caller's render.  sends and inits     *)
(* hold, for every handleSendMessage and every initialisation of           *)
(* handleSelectChapter, the chapter id it closed over and whether its      *)
(* await has settled.  History: activeAtReply of a send is the chapter     *)
(* that was active when its await settled; adds holds, for every call of   *)
(* an add handler, the first chapter it added and whether it selected it.  *)
(***************************************************************************)
MaxChatChapters == 2
MaxChapterIds == 3
MaxSends == 2
MaxInits == 2

ChatMsg(role, kind, n) == [role |-> role, kind |-> kind, n |-> n]

\* setChapters(prev => prev.map(chap => chap.id === id ? f(chap) : chap)),
\* appending one message
AppendMessage(chapters, id, m) ==
    [i \in 1..Len(chapters) |->
        IF chapters[i].id = id
        THEN [chapters[i] EXCEPT !.messages = Append(@, m)] ELSE chapters[i]]

ChapterIds(chapters) == {chapters[i].id : i \in 1..Len(chapters)}
ChapterOf(chapters, id) == chapters[CHOOSE i \in 1..Len(chapters) : chapters[i].id = id]

\* App.tsx lines 517-521 and 531-535 updating the chapter that is
\* active when the reply arrives
replyTarget_Current(c, k) == c.activeChapterId

\* App.tsx lines 517-521 and 531-535: the activeChapterId the handler
\* closed over
replyTarget(c, k) == c.sends[k].chapter

\* App.tsx lines 364-373 (and 36-45): handleSelectChapter up to its await,
\* on the state c, the handler having closed over the list chapters
handleSelectChapter(c, chapters, chapterId) ==
    LET starts == /\ chapterId \in ChapterIds(chapters)
                  /\ ChapterOf(chapters, chapterId).chatInstance = 0
    IN [c EXCEPT !.activeChapterId = chapterId,
                 !.error = "",
                 !.isInitializingChat = IF starts THEN TRUE ELSE @,
                 !.inits = IF starts THEN Append(@, [chapter |-> chapterId, phase |-> "awaiting"])
                           ELSE @]

InitChat ==
    /\ ModalMounted
    /\ pathSt = [pc |-> "off"]
    /\ exSt = [pc |-> "off"]
    /\ call = [pc |-> "chat", fn |-> "chat", chapters |-> <<>>, activeChapterId |-> 0,
               nextId |-> 1, isLoading |-> FALSE, isInitializingChat |-> FALSE, error |-> "",
               sends |-> <<>>, inits |-> <<>>, adds |-> <<>>]

\* lines 432-448 (and 89-105): a chapter is added by hand
AddChapter ==
    /\ call.pc = "chat"
    /\ Len(call.chapters) < MaxChatChapters
    /\ call.nextId <= MaxChapterIds
    /\ LET newChapterId == call.nextId
           select == call.activeChapterId = 0 \/ Len(call.chapters) = 0
           added == [call EXCEPT
                        !.chapters = Append(@, [id |-> newChapterId, chatInstance |-> 0,
                                                messages |-> <<>>]),
                        !.nextId = @ + 1,
                        !.adds = Append(@, [id |-> newChapterId, selected |-> select])]
       IN call' = IF select THEN handleSelectChapter(added, call.chapters, newChapterId)
                  ELSE added
    /\ Len(call'.inits) <= MaxInits
    /\ UNCHANGED <<pathSt, exSt, importVars>>

\* lines 450-482 (and 107-127): the two chapters of an import are added
AddChaptersBatch ==
    /\ call.pc = "chat"
    /\ Len(call.chapters) + 2 <= MaxChatChapters
    /\ call.nextId + 1 <= MaxChapterIds
    /\ LET firstId == call.nextId
           select == Len(call.chapters) = 0 \/ call.activeChapterId = 0
           added == [call EXCEPT
                        !.chapters = @ \o <<[id |-> firstId, chatInstance |-> 0, messages |-> <<>>],
                                            [id |-> firstId + 1, chatInstance |-> 0,
                                             messages |-> <<>>]>>,
                        !.nextId = @ + 2,
                        !.adds = Append(@, [id |-> firstId, selected |-> select])]
       IN call' = IF select THEN handleSelectChapter(added, call.chapters, firstId)
                  ELSE added
    /\ Len(call'.inits) <= MaxInits
    /\ UNCHANGED <<pathSt, exSt, importVars>>

\* line 597: a chapter of the list is clicked
SelectChapter(chapterId) ==
    /\ call.pc = "chat"
    /\ chapterId \in ChapterIds(call.chapters)
    /\ call' = handleSelectChapter(call, call.chapters, chapterId)
    /\ Len(call'.inits) <= MaxInits
    /\ UNCHANGED <<pathSt, exSt, importVars>>

\* lines 374-414: the first reply arrives (ok) or the backend fails
InitSettles(k, ok) ==
    /\ call.pc = "chat"
    /\ k \in 1..Len(call.inits)
    /\ call.inits[k].phase = "awaiting"
    /\ call' = [call EXCEPT
                  !.chapters =
                      [i \in 1..Len(@) |->
                          IF @[i].id = call.inits[k].chapter
                          THEN IF ok
                               THEN [@[i] EXCEPT !.chatInstance = k,
                                                 !.messages = <<ChatMsg("model", "initial", k)>>]
                               ELSE [@[i] EXCEPT
                                        !.messages = <<ChatMsg("model", "init-error", k)>>]
                          ELSE @[i]],
                  !.error = IF ok THEN @ ELSE "init-failed",
                  !.isInitializingChat = FALSE,
                  !.inits[k].phase = "settled"]
    /\ UNCHANGED <<pathSt, exSt, importVars>>

\* lines 485-504: handleSendMessage up to its await; the input of ChatView
\* is enabled (ChatView.tsx line 211: isLoading || isInitializingChat false)
SendMessage ==
    /\ call.pc = "chat"
    /\ ~call.isLoading /\ ~call.isInitializingChat
    /\ call.activeChapterId # 0
    /\ Len(call.sends) < MaxSends
    /\ IF \/ call.activeChapterId \notin ChapterIds(call.chapters)
          \/ ChapterOf(call.chapters, call.activeChapterId).chatInstance = 0
       THEN call' = [call EXCEPT !.error = "no-active-chapter-or-session"]
       ELSE LET n == Len(call.sends) + 1
            IN call' = [call EXCEPT
                          !.chapters = AppendMessage(@, call.activeChapterId,
                                                     ChatMsg("user", "text", n)),
                          !.isLoading = TRUE,
                          !.error = "",
                          !.sends = Append(@, [chapter |-> call.activeChapterId,
                                               phase |-> "awaiting", activeAtReply |-> 0])]
    /\ UNCHANGED <<pathSt, exSt, importVars>>

\* lines 505-538: the reply arrives (ok) or the backend fails
ReplySettles(k, ok) ==
    /\ call.pc = "chat"
    /\ k \in 1..Len(call.sends)
    /\ call.sends[k].phase = "awaiting"
    /\ call' = [call EXCEPT
                  !.chapters = AppendMessage(@, replyTarget(call, k),
                                             ChatMsg("model", IF ok THEN "reply" ELSE "error", k)),
                  !.error = IF ok THEN @ ELSE "reply-failed",
                  !.isLoading = FALSE,
                  !.sends[k] = [@ EXCEPT !.phase = "settled",
                                         !.activeAtReply = call.activeChapterId]]
    /\ UNCHANGED <<pathSt, exSt, importVars>>

\* lines 541-546: a chapter is deleted
handleDeleteChapter(chapterId) ==
    /\ call.pc = "chat"
    /\ chapterId \in ChapterIds(call.chapters)
    /\ call' = [call EXCEPT
                  !.chapters = SelectSeq(@, LAMBDA chap : chap.id # chapterId),
                  !.activeChapterId = IF @ = chapterId THEN 0 ELSE @]
    /\ UNCHANGED <<pathSt, exSt, importVars>>

NextChat ==
    \/ AddChapter
    \/ AddChaptersBatch
    \/ \E id \in 1..MaxChapterIds : SelectChapter(id)
    \/ \E k \in 1..MaxInits, ok \in BOOLEAN : InitSettles(k, ok)
    \/ SendMessage
    \/ \E k \in 1..MaxSends, ok \in BOOLEAN : ReplySettles(k, ok)
    \/ \E id \in 1..MaxChapterIds : handleDeleteChapter(id)

SpecChat == InitChat /\ [][NextChat]_vars

(***************************************************************************)
(* C29                                                                     *)
(***************************************************************************)
\* the message lists of the chapters of d are those of c, with m appended to
\* chapter id and nothing else changed
OnlyAppended(c, d, id, m) ==
    /\ Len(d.chapters) = Len(c.chapters)
    /\ \A i \in 1..Len(c.chapters) :
          /\ d.chapters[i].id = c.chapters[i].id
          /\ d.chapters[i].messages =
                IF c.chapters[i].id = id THEN Append(c.chapters[i].messages, m)
                ELSE c.chapters[i].messages

C29_WitnessBackendFailed ==
    /\ call.pc = "chat"
    /\ \E n \in 1..Len(call.sends) :
          /\ call.sends[n].phase = "settled"
          /\ call.sends[n].chapter \in ChapterIds(call.chapters)
          /\ LET ms == ChapterOf(call.chapters, call.sends[n].chapter).messages
             IN /\ Len(ms) >= 2
                /\ ms[Len(ms) - 1] = ChatMsg("user", "text", n)
                /\ ms[Len(ms)] = ChatMsg("model", "error", n)
          /\ call.error = "reply-failed"
          /\ ~call.isLoading

\* the lists after the appends of C29: in a chapter that handleSelectChapter
\* has initialised at most once, the model message of a send is preceded by
\* its user message and there is one of it (a second initialisation of the
\* chapter, lines 389-393, replaces the list by the first model message)
ModelMessageFollowsItsUserMessage ==
    call.pc = "chat" =>
       \A i \in 1..Len(call.chapters) :
          LET ms == call.chapters[i].messages
          IN Cardinality({k \in 1..Len(call.inits) :
                             call.inits[k].chapter = call.chapters[i].id}) <= 1 =>
                \A j \in 1..Len(ms) :
                   ms[j].kind \in {"reply", "error"} =>
                      /\ j > 1
                      /\ \E k \in 1..(j - 1) : ms[k] = ChatMsg("user", "text", ms[j].n)
                      /\ \A k \in 1..Len(ms) :
                            (ms[k].kind = ms[j].kind /\ ms[k].n = ms[j].n) => k = j

(***************************************************************************)
(* C30                                                                     *)
(***************************************************************************)
\* the step is a call of an add handler that took the branch of lines 445
\* and 479 (no chapter active, or the list empty)
AddedAndSelected ==
    /\ Len(call'.adds) = Len(call.adds) + 1
    /\ call'.adds[Len(call'.adds)].selected

AddedId == call'.adds[Len(call'.adds)].id

\* C30: a chapter added (by hand, or as the first chapter of a batch) while
\* no chapter is active or the list is empty becomes the active chapter, and
\* in the same step handleSelectChapter finds it and starts its discussion:
\* the initialisation that creates its chat session and stores its first
\* model message (or the initialisation-error message) is under way.
C30_AddedChapterStartsItsDiscussion ==
    [][AddedAndSelected =>
          /\ call'.activeChapterId = AddedId
          /\ call'.isInitializingChat
          /\ Len(call'.inits) = Len(call.inits) + 1
          /\ call'.inits[Len(call'.inits)] = [chapter |-> AddedId, phase |-> "awaiting"]]_vars

\* what the handlers do: the added chapter becomes the active chapter, but
\* handleSelectChapter searches the list of the render the add handler was
\* created in, which does not hold the new chapter, so no initialisation is
\* started and the chapter has neither chat session nor message
C30_AddedChapterSelectedNotStarted ==
    [][AddedAndSelected =>
          /\ call'.activeChapterId = AddedId
          /\ call'.error = ""
          /\ call'.inits = call.inits
          /\ call'.isInitializingChat = call.isInitializingChat
          /\ ChapterOf(call'.chapters, AddedId).chatInstance = 0
          /\ ChapterOf(call'.chapters, AddedId).messages = <<>>]_vars

\* a chat session or a message of a chapter stems from an initialisation,
\* and an initialisation is started only by a click on a chapter of the list
C30_DiscussionStartsOnClickOnly ==
    [][Len(call'.inits) > Len(call.inits) =>
          /\ call'.adds = call.adds
          /\ call'.inits[Len(call'.inits)].chapter \in ChapterIds(call.chapters)
          /\ call'.activeChapterId = call'.inits[Len(call'.inits)].chapter]_vars

\* a chapter added by hand to the empty list is active and has no discussion
C30_WitnessManualNotStarted ==
    /\ call.pc = "chat"
    /\ Len(call.adds) = 1 /\ call.adds[1].selected
    /\ Len(call.chapters) = 1
    /\ call.activeChapterId = call.chapters[1].id
    /\ call.chapters[1].chatInstance = 0 /\ call.chapters[1].messages = <<>>
    /\ call.inits = <<>> /\ ~call.isInitializingChat

\* the first chapter of a batch added to the empty list likewise
C30_WitnessBatchNotStarted ==
    /\ call.pc = "chat"
    /\ Len(call.adds) = 1 /\ call.adds[1].selected
    /\ Len(call.chapters) = 2
    /\ call.activeChapterId = call.chapters[1].id
    /\ call.chapters[1].chatInstance = 0 /\ call.chapters[1].messages = <<>>
    /\ call.inits = <<>> /\ ~call.isInitializingChat

\* a chapter added while chapters exist but none is active (the active one
\* was deleted)
C30_WitnessAddedAfterDelete ==
    /\ call.pc = "chat"
    /\ Len(call.adds) = 2 /\ call.adds[2].selected
    /\ Len(call.chapters) = 2
    /\ call.activeChapterId = call.adds[2].id
    /\ ChapterOf(call.chapters, call.adds[2].id).messages = <<>>
    /\ \A k \in 1..Len(call.inits) : call.inits[k].chapter # call.adds[2].id

====
